---- MODULE Spec2Model ----
(***************************************************************************)
(* Model of the simulation driver (src/src/SimulationEngine.ts) and of the *)
(* statement interpreter it calls (src/src/MathLangUtils.ts).              *)
(*                                                                         *)
(* Numbers are decimal fixed-point integers (Scale units per 1), with      *)
(* three distinguished values for the non-finite doubles.  Program texts   *)
(* are sequences of lexical tokens (strings); "\n", " ", "=", "," and "#"  *)
(* are the separator tokens the code splits and trims on.  Instants are    *)
(* hours since 1970-01-01T00:00Z; the host's UTC offset is in whole hours. *)
(***************************************************************************)
EXTENDS Integers, Sequences, FiniteSets, TLC

-----------------------------------------------------------------------------
(* Numbers                                                                 *)

Scale == 10

Infinity == 1000000000

NegInfinity == 0 - Infinity

NaN == Infinity + 1

IsFinite(v) == v > NegInfinity /\ v < Infinity

Sign(v) == IF v < 0 THEN 0 - 1 ELSE IF v > 0 THEN 1 ELSE 0

Abs(v) == IF v < 0 THEN 0 - v ELSE v

FromInt(n) == n * Scale

\* the binary operators of the host language on doubles
Neg(a) ==
    IF a = NaN THEN NaN
    ELSE IF a = Infinity THEN NegInfinity
    ELSE IF a = NegInfinity THEN Infinity
    ELSE 0 - a

Add(a, b) ==
    IF a = NaN \/ b = NaN THEN NaN
    ELSE IF ~IsFinite(a) /\ ~IsFinite(b) THEN (IF a = b THEN a ELSE NaN)
    ELSE IF ~IsFinite(a) THEN a
    ELSE IF ~IsFinite(b) THEN b
    ELSE a + b

Sub(a, b) == Add(a, Neg(b))

Mul(a, b) ==
    IF a = NaN \/ b = NaN THEN NaN
    ELSE IF ~IsFinite(a) \/ ~IsFinite(b)
         THEN (IF a = 0 \/ b = 0 THEN NaN
               ELSE IF Sign(a) * Sign(b) > 0 THEN Infinity ELSE NegInfinity)
    ELSE Sign(a) * Sign(b) * ((Abs(a) * Abs(b)) \div Scale)

Div(a, b) ==
    IF a = NaN \/ b = NaN THEN NaN
    ELSE IF ~IsFinite(a) /\ ~IsFinite(b) THEN NaN
    ELSE IF ~IsFinite(b) THEN 0
    ELSE IF ~IsFinite(a)
         THEN (IF Sign(a) * (IF b < 0 THEN 0 - 1 ELSE 1) > 0
               THEN Infinity ELSE NegInfinity)
    ELSE IF b = 0
         THEN (IF a = 0 THEN NaN ELSE IF a > 0 THEN Infinity ELSE NegInfinity)
    ELSE Sign(a) * Sign(b) * ((Abs(a) * Scale) \div Abs(b))

\* `v || 0`: the falsy numbers are 0 and NaN
OrZero(v) == IF v = NaN \/ v = 0 THEN 0 ELSE v

-----------------------------------------------------------------------------
(* Calendar: the Date object                                               *)

HoursPerDay == 24

IsLeap(y) == (y % 4 = 0 /\ y % 100 # 0) \/ y % 400 = 0

DaysInMonth(y, m) ==
    IF m = 2 THEN (IF IsLeap(y) THEN 29 ELSE 28)
    ELSE IF m \in {4, 6, 9, 11} THEN 30 ELSE 31

\* days from 1970-01-01 to the civil date y-m-d (proleptic Gregorian);
\* d may exceed the month's length and then rolls over, as Date does
DaysFromMarch(yy, mp, d) ==
    (yy \div 400) * 146097
      + (yy % 400) * 365 + (yy % 400) \div 4 - (yy % 400) \div 100
      + (153 * mp + 2) \div 5 + d - 1 - 719468

DaysFromCivil(y, m, d) ==
    DaysFromMarch(IF m <= 2 THEN y - 1 ELSE y, (m + 9) % 12, d)

\* the civil date of day doy (counted from 1 March) of year yoe of an era
CivilFromDoy(era, yoe, doy, mp) ==
    [y |-> yoe + era * 400 + (IF mp < 10 THEN 0 ELSE 1),
     m |-> IF mp < 10 THEN mp + 3 ELSE mp - 9,
     d |-> doy - (153 * mp + 2) \div 5 + 1]

CivilFromYoe(era, doe, yoe) ==
    CivilFromDoy(era, yoe, doe - (365 * yoe + yoe \div 4 - yoe \div 100),
       (5 * (doe - (365 * yoe + yoe \div 4 - yoe \div 100)) + 2) \div 153)

CivilFromDoe(era, doe) ==
    CivilFromYoe(era, doe,
       (doe - doe \div 1460 + doe \div 36524 - doe \div 146096) \div 365)

\* the civil date of the day z days after 1970-01-01
CivilFromDays(z) ==
    CivilFromDoe((z + 719468) \div 146097, (z + 719468) % 146097)

\* new Date("YYYY-MM-DD"): a date-only string is midnight UTC
ParseDateString(s) == DaysFromCivil(s.y, s.m, s.d) * HoursPerDay

\* new Date(year, monthIndex, day): midnight in the host's zone
NewLocalDate(y, m, d, off) == DaysFromCivil(y, m, d) * HoursPerDay - off

\* the host-zone calendar fields of an instant
LocalFields(t, off) == CivilFromDays((t + off) \div HoursPerDay)

getDate(t, off) == LocalFields(t, off).d

getMonth(t, off) == LocalFields(t, off).m - 1

getFullYear(t, off) == LocalFields(t, off).y

\* date.setFullYear(y): same month, day and time of day in the host's zone
AtLocal(y, m, d, t, off) ==
    DaysFromCivil(y, m, d) * HoursPerDay + ((t + off) % HoursPerDay) - off

WithYear(f, y, t, off) == AtLocal(y, f.m, f.d, t, off)

WithDay(f, n, t, off) == AtLocal(f.y, f.m, n, t, off)

setFullYear(t, y, off) == WithYear(LocalFields(t, off), y, t, off)

\* date.setDate(n): day n of the instant's month in the host's zone
setDate(t, n, off) == WithDay(LocalFields(t, off), n, t, off)

\* date.toISOString().split("T")[0]: the UTC calendar day
toISODate(t) == CivilFromDays(t \div HoursPerDay)

-----------------------------------------------------------------------------
(* Texts: token sequences                                                  *)

\* the numeric literal tokens and the number each denotes
NumericLiteral ==
    [tok \in {"0", "1", "2", "3", "5", "7", "9", "50", "99", "100", "1000",
               "0.1", "0.5"} |->
        CASE tok = "0"    -> 0
          [] tok = "1"    -> FromInt(1)
          [] tok = "2"    -> FromInt(2)
          [] tok = "3"    -> FromInt(3)
          [] tok = "5"    -> FromInt(5)
          [] tok = "7"    -> FromInt(7)
          [] tok = "9"    -> FromInt(9)
          [] tok = "50"   -> FromInt(50)
          [] tok = "99"   -> FromInt(99)
          [] tok = "100"  -> FromInt(100)
          [] tok = "1000" -> FromInt(1000)
          [] tok = "0.1"  -> FromInt(1) \div 10
          [] tok = "0.5"  -> FromInt(5) \div 10]

\* the identifier names ([a-zA-Z_][a-zA-Z0-9_]*) that occur in the texts
Identifiers ==
    {"cash", "rate", "a", "b", "c", "k", "m", "q", "r", "z", "w", "nope",
     "ghost", "bonus", "pay", "periods_from_start", "total_periods",
     "x", "y", "foo", "g", "h", "v", "u", "t", "secret"}

\* the functions of the host's global scope that occur in the texts; a
\* parameter of the generated function with the same name shadows them
HostFunctions == {"Number"}

IsNumeric(tok) == tok \in DOMAIN NumericLiteral

IsIdentifier(tok) == tok \in Identifiers

IsSpace(tok) == tok = " "

RECURSIVE SplitFrom(_, _, _, _)
SplitFrom(s, sep, p, cur) ==
    IF p > Len(s) THEN <<cur>>
    ELSE IF s[p] = sep THEN <<cur>> \o SplitFrom(s, sep, p + 1, <<>>)
    ELSE SplitFrom(s, sep, p + 1, Append(cur, s[p]))

\* String.prototype.split(sep)
Split(s, sep) == SplitFrom(s, sep, 1, <<>>)

RECURSIVE TrimStart(_)
TrimStart(s) ==
    IF s # <<>> /\ IsSpace(Head(s)) THEN TrimStart(Tail(s)) ELSE s

RECURSIVE TrimEnd(_)
TrimEnd(s) ==
    IF s # <<>> /\ IsSpace(s[Len(s)])
    THEN TrimEnd(SubSeq(s, 1, Len(s) - 1)) ELSE s

\* String.prototype.trim()
Trim(s) == TrimEnd(TrimStart(s))

\* expr.replace(/\s/g, "")
RemoveSpace(s) == SelectSeq(s, LAMBDA tok : ~IsSpace(tok))

RECURSIVE Join(_)
Join(s) == IF s = <<>> THEN "" ELSE Head(s) \o Join(Tail(s))

MapTrim(ss) == [k \in 1..Len(ss) |-> Trim(ss[k])]

\* parseFloat(text): the longest numeric prefix after leading white space
NumericPrefix(s) ==
    IF s = <<>> THEN NaN
    ELSE IF IsNumeric(s[1]) THEN NumericLiteral[s[1]]
    ELSE IF s[1] \in {"-", "+"} /\ Len(s) >= 2 /\ IsNumeric(s[2])
         THEN (IF s[1] = "-" THEN Neg(NumericLiteral[s[2]])
               ELSE NumericLiteral[s[2]])
    ELSE NaN

parseFloat(text) == NumericPrefix(TrimStart(text))

-----------------------------------------------------------------------------
(* Contexts: Record<string, number>                                        *)

EmptyContext == [n \in {} |-> 0]

Keys(ctx) == DOMAIN ctx

\* context[name] = value
Put(ctx, name, v) ==
    [n \in DOMAIN ctx \cup {name} |-> IF n = name THEN v ELSE ctx[n]]

\* { ...a, ...b }: the keys of both, b's values winning
Spread(a, b) ==
    [n \in DOMAIN a \cup DOMAIN b |-> IF n \in DOMAIN b THEN b[n] ELSE a[n]]

-----------------------------------------------------------------------------
(* evaluateExpression and executeCode (MathLangUtils.ts)                   *)

\* the result of a call whose argument is evaluated once, before the call:
\* the element of {F(x) : x \in {argument}}
Only(results) == CHOOSE y \in results : TRUE

BannedChars == {"{", "}", "[", "]", "`", "'", "\"", "\\"}

\* /[{}[\]`'"\\]/.test(expr)
HasBannedChar(expr) == \E p \in 1..Len(expr) : expr[p] \in BannedChars

\* /\.[^\d]/.test(exprNoSpace): a period followed by something not a digit
PeriodBeforeNonDigit(e) ==
    \E p \in 1..(Len(e) - 1) : e[p] = "." /\ ~IsNumeric(e[p + 1])

HasBadPeriod(expr) == PeriodBeforeNonDigit(RemoveSpace(expr))

\* variant: the binary operators all bind alike
PrecFlat(op) ==
    IF op \in {"+", "-", "*", "/"} THEN 1
    ELSE IF op \in {"neg", "pos"} THEN 3
    ELSE 0

\* binding strength of the operators on the operator stack
Prec(op) ==
    IF op \in {"+", "-"} THEN 1
    ELSE IF op \in {"*", "/"} THEN 2
    ELSE IF op \in {"neg", "pos"} \cup HostFunctions THEN 3
    ELSE 0

\* the value stack after applying the operator op to its top
Apply(op, vals) ==
    LET n == Len(vals)
    IN  IF op = "neg" THEN SubSeq(vals, 1, n - 1) \o <<Neg(vals[n])>>
        ELSE IF op = "pos" THEN vals
        ELSE IF op = "Number" THEN vals
        ELSE SubSeq(vals, 1, n - 2) \o
               << CASE op = "+" -> Add(vals[n - 1], vals[n])
                    [] op = "-" -> Sub(vals[n - 1], vals[n])
                    [] op = "*" -> Mul(vals[n - 1], vals[n])
                    [] op = "/" -> Div(vals[n - 1], vals[n]) >>

\* applies the operators on top of the stack that bind at least as strongly
\* as prec, down to the innermost open parenthesis
RECURSIVE Reduce(_, _, _)
Reduce(vals, ops, prec) ==
    IF ops # <<>> /\ ops[Len(ops)] # "(" /\ Prec(ops[Len(ops)]) >= prec
    THEN Reduce(Apply(ops[Len(ops)], vals), SubSeq(ops, 1, Len(ops) - 1), prec)
    ELSE [vals |-> vals, ops |-> ops]

\* reading state of an expression: the operand and operator stacks of the
\* part already read, whether an operand is due next, and whether the part
\* read can still be completed to an expression whose names are all bound
ReadState(vals, ops, operand, ok) ==
    [vals |-> vals, ops |-> ops, operand |-> operand, ok |-> ok]

Stuck == ReadState(<<>>, <<>>, TRUE, FALSE)

\* a binary operator is read: the operators that bind at least as strongly
\* were applied (r), then it is pushed
PushOperator(tok, r) == ReadState(r.vals, Append(r.ops, tok), TRUE, TRUE)

\* a ")" is read: the operators down to the open parenthesis were applied (r)
CloseParenthesis(r) ==
    IF r.ops = <<>> THEN Stuck
    ELSE ReadState(r.vals, SubSeq(r.ops, 1, Len(r.ops) - 1), FALSE, TRUE)

\* the token before was the name of a host function: the texts use such a
\* name only as the callee of a call with one argument, name "(" ... ")"
AfterCallee(st) == st.ops # <<>> /\ st.ops[Len(st.ops)] \in HostFunctions

\* reading one more token of an expression of the host language: number |
\* identifier | "(" expression ")" | unary - + | binary + - * / | a call of
\* a host function
ReadToken(tok, st, ctx) ==
    IF ~st.ok THEN Stuck
    ELSE IF st.operand
    THEN (IF AfterCallee(st) /\ tok # "("
          THEN Stuck
          ELSE IF IsNumeric(tok)
          THEN ReadState(Append(st.vals, NumericLiteral[tok]), st.ops,
                         FALSE, TRUE)
          ELSE IF tok = "("
          THEN ReadState(st.vals, Append(st.ops, "("), TRUE, TRUE)
          ELSE IF tok \in {"-", "+"}
          THEN ReadState(st.vals,
                         Append(st.ops, IF tok = "-" THEN "neg" ELSE "pos"),
                         TRUE, TRUE)
          ELSE IF IsIdentifier(tok) /\ tok \in Keys(ctx)
          THEN ReadState(Append(st.vals, ctx[tok]), st.ops, FALSE, TRUE)
          ELSE IF tok \in HostFunctions /\ tok \notin Keys(ctx)
          THEN ReadState(st.vals, Append(st.ops, tok), TRUE, TRUE)
          ELSE Stuck)
    ELSE IF tok \in {"+", "-", "*", "/"}
    THEN PushOperator(tok, Reduce(st.vals, st.ops, Prec(tok)))
    ELSE IF tok = ")"
    THEN CloseParenthesis(Reduce(st.vals, st.ops, 1))
    ELSE Stuck

RECURSIVE ReadFrom(_, _, _, _)
ReadFrom(t, p, st, ctx) ==
    IF p > Len(t) THEN st
    ELSE Only({ReadFrom(t, p + 1, next, ctx) :
                  next \in {ReadToken(t[p], st, ctx)}})

\* the text is read (st) and the pending operators applied (r)
Value(st, r) ==
    IF st.ok /\ ~st.operand /\ r.ops = <<>>
    THEN [ok |-> TRUE, v |-> r.vals[1]]
    ELSE [ok |-> FALSE, v |-> 0]

Finish(st) == Value(st, Reduce(st.vals, st.ops, 1))

\* the value of the expression t in ctx; it fails on text that is no
\* expression (SyntaxError) and on an identifier that is not a parameter of
\* the generated function (ReferenceError)
Evaluate(t, ctx) ==
    Only({Finish(st) :
             st \in {ReadFrom(t, 1, ReadState(<<>>, <<>>, TRUE, TRUE), ctx)}})

Returned(v) == [threw |-> FALSE, value |-> v]

Thrown == [threw |-> TRUE, value |-> 0]

\* func(...contextValues) of `return (${expr}) || 0`
Called(r) == IF r.ok THEN Returned(OrZero(r.v)) ELSE Thrown

\* the positions of expr at which a line comment of the host language
\* starts: a "/" directly followed by a "/"
CommentStarts(expr) ==
    {p \in 1..(Len(expr) - 1) : expr[p] = "/" /\ expr[p + 1] = "/"}

HasLineComment(expr) == CommentStarts(expr) # {}

Least(ps) == CHOOSE p \in ps : \A o \in ps : p <= o

\* the text of expr before its line comment
BeforeComment(expr) == SubSeq(expr, 1, Least(CommentStarts(expr)) - 1)

\* func(...contextValues) of a body whose `) || 0` lies in a line comment:
\* typeof result === "number" ? result : 0, and NaN is a number
CalledBare(r) == IF r.ok THEN Returned(r.v) ELSE Thrown

\* the body `return (${expr}) || 0` when expr holds a line comment: the
\* comment runs to the end of the body, which then is `return (` and the
\* text before the comment
CallCommented(expr, ctx) ==
    Only({CalledBare(Evaluate(t, ctx)) :
             t \in {<<"(">> \o RemoveSpace(BeforeComment(expr))}})

\* new Function(...contextKeys, `return (${expr}) || 0`)(...contextValues):
\* throws when a key is no parameter name, when expr is no expression or
\* when it names something that is no parameter
CallFunction(expr, ctx) ==
    IF \A n \in Keys(ctx) : IsIdentifier(n)
    THEN (IF HasLineComment(expr) THEN CallCommented(expr, ctx)
          ELSE Only({Called(Evaluate(t, ctx)) : t \in {RemoveSpace(expr)}}))
    ELSE Thrown

\* catch (error) { if (raise_errors) throw error; return 0 }
Caught(r, raise_errors) ==
    IF r.threw /\ ~raise_errors THEN Returned(0) ELSE r

\* the early returns of evaluateExpression for the number f = parseFloat(expr)
EarlyReturn(expr, f) ==
    IF Trim(expr) = <<>> THEN Returned(0)
    ELSE IF f # NaN THEN Returned(f)
    ELSE IF HasBannedChar(expr) THEN Returned(0)
    ELSE IF HasBadPeriod(expr) THEN Returned(0)
    ELSE Thrown

evaluateExpression(expr, ctx, raise_errors) ==
    IF EarlyReturn(expr, parseFloat(expr)).threw
    THEN Caught(CallFunction(expr, ctx), raise_errors)
    ELSE EarlyReturn(expr, parseFloat(expr))

\* variant: the lines that start with "#" are executed like the others
StatementsKeepComments(code) ==
    SelectSeq(MapTrim(Split(code, "\n")), LAMBDA line : line # <<>>)

\* the statements of a program: split on "\n", trimmed, without the empty
\* lines and the lines that start with "#"
Statements(code) ==
    SelectSeq(MapTrim(Split(code, "\n")),
              LAMBDA line : line # <<>> /\ Head(line) # "#")

\* variant: a failed evaluation binds 0 and the program goes on
BindLenient(ctx, updatedVarName, r) ==
    [threw |-> FALSE,
     context |-> Put(ctx, updatedVarName, IF r.threw THEN 0 ELSE r.value)]

\* context[updatedVarName] = r, unless the evaluation threw
Bind(ctx, updatedVarName, r) ==
    IF r.threw THEN [threw |-> TRUE, context |-> ctx]
    ELSE [threw |-> FALSE, context |-> Put(ctx, updatedVarName, r.value)]

\* the first two parts are the name and the expression; a statement without
\* "=" has an undefined second part, which evaluates as the empty text
Assign(parts, ctx) ==
    Bind(ctx, Join(parts[1]),
         evaluateExpression(IF Len(parts) >= 2 THEN parts[2] ELSE <<>>,
                            ctx, TRUE))

\* one statement: statement.split("=").map(trim), then the assignment
ExecStatement(statement, ctx) == Assign(MapTrim(Split(statement, "=")), ctx)

\* the statements from the k-th on, r being the outcome of those before
RECURSIVE RunStatements(_, _, _)
RunStatements(stmts, k, r) ==
    IF k > Len(stmts) \/ r.threw THEN r
    ELSE Only({RunStatements(stmts, k + 1, next) :
                  next \in {ExecStatement(stmts[k], r.context)}})

\* executeCode(code, context): the context as the call leaves it, and whether
\* the call threw
executeCode(code, ctx) ==
    Only({RunStatements(stmts, 1, [threw |-> FALSE, context |-> ctx]) :
             stmts \in {Statements(code)}})

-----------------------------------------------------------------------------
(* The scheduling functions (SimulationEngine.ts)                          *)

\* Math.floor(n / d) and Math.ceil(n / d) for d > 0
FloorDiv(n, d) == n \div d

CeilDiv(n, d) == 0 - ((0 - n) \div d)

\* variant: the two boundary days of the range are skipped as well
OutOfRangeExclusive(date, blockState) ==
    \/ date <= ParseDateString(blockState.startDate)
    \/ date >= ParseDateString(blockState.endDate)

\* currentDate < blockStartDate || currentDate > blockEndDate
OutOfRange(date, blockState) ==
    \/ date < ParseDateString(blockState.startDate)
    \/ date > ParseDateString(blockState.endDate)

\* the frequency alignment of two dates by their host-zone calendar fields
Aligned(d, s, frequency) ==
    IF frequency = "daily" THEN TRUE
    ELSE IF frequency = "monthly" THEN d.d = s.d
    ELSE d.d = s.d /\ d.m - 1 = s.m - 1

shouldBlockExecute(date, blockState, off) ==
    IF OutOfRange(date, blockState) THEN FALSE
    ELSE Aligned(LocalFields(date, off),
                 LocalFields(ParseDateString(blockState.startDate), off),
                 blockState.frequency)

\* yearsDiff * 12 + monthsDiff, and yearsDiff, of the calendar fields
MonthsBetween(s, d) == (d.y - s.y) * 12 + ((d.m - 1) - (s.m - 1))

YearsBetween(s, d) == d.y - s.y

calculatePeriodsFromStart(startDate, date, frequency, off) ==
    IF frequency = "daily" THEN FloorDiv(date - startDate, HoursPerDay)
    ELSE IF frequency = "monthly"
         THEN MonthsBetween(LocalFields(startDate, off), LocalFields(date, off))
    ELSE YearsBetween(LocalFields(startDate, off), LocalFields(date, off))

calculateTotalPeriods(start, end, frequency, off) ==
    IF frequency = "daily" THEN CeilDiv(end - start, HoursPerDay)
    ELSE IF frequency = "monthly"
         THEN MonthsBetween(LocalFields(start, off), LocalFields(end, off)) + 1
    ELSE YearsBetween(LocalFields(start, off), LocalFields(end, off)) + 1

-----------------------------------------------------------------------------
(* Context merging and export resolution (SimulationEngine.ts)             *)

\* block.state.exports.split(",").map(trim).filter(Boolean)
NonEmptyNames(parts) ==
    {Join(parts[k]) : k \in {j \in 1..Len(parts) : parts[j] # <<>>}}

ExplicitExports(exports) == NonEmptyNames(MapTrim(Split(exports, ",")))

\* variant: only the declared exports are lifted
ExportVarsDeclaredOnly(exports, global) == ExplicitExports(exports)

\* ... .concat(Object.keys(globalContext))
ExportVars(exports, global) == ExplicitExports(exports) \cup Keys(global)

\* variant: every name of ctx is lifted
CopyExportsAll(exportVars, ctx, global) == Spread(global, ctx)

\* variant: the global context is rebuilt from the export variables that hold
\* a truthy value in ctx
CopyExportsTruthy(exportVars, ctx, global) ==
    [n \in {m \in exportVars \cap Keys(ctx) : ctx[m] # 0} |-> ctx[n]]

\* for (varName of exportVars) if (varName in ctx) global[varName] = ctx[varName]
CopyExports(exportVars, ctx, global) ==
    [n \in Keys(global) \cup (exportVars \cap Keys(ctx)) |->
        IF n \in exportVars /\ n \in Keys(ctx) THEN ctx[n] ELSE global[n]]

\* the names and values an export resolution assigns in globalContext
Lifted(exportVars, ctx) == [n \in exportVars \cap Keys(ctx) |-> ctx[n]]

DefaultInputs(periodsFromStart, totalPeriods) ==
    [n \in {"periods_from_start", "total_periods"} |->
        IF n = "periods_from_start" THEN periodsFromStart ELSE totalPeriods]

\* initContext[key] = isNaN(parseFloat(value)) ? 0 : parseFloat(value)
ZeroIfNaN(numValue) == IF numValue = NaN THEN 0 ELSE numValue

\* variant: the parsed value is stored as it is, not-a-number included
ParsedInputsRaw(inputs) == [key \in DOMAIN inputs |-> parseFloat(inputs[key])]

ParsedInputs(inputs) ==
    [key \in DOMAIN inputs |-> ZeroIfNaN(parseFloat(inputs[key]))]

\* { ...globalContext, periods_from_start: 0, total_periods }, then the inputs
InitContext(global, totalPeriods, inputs) ==
    Spread(Spread(global, DefaultInputs(0, FromInt(totalPeriods))),
           ParsedInputs(inputs))

\* blockContext.total_periods || 0
PersistedTotalPeriods(blockContext) ==
    IF "total_periods" \in Keys(blockContext)
    THEN OrZero(blockContext["total_periods"]) ELSE 0

\* variant: the persisted block context is left out
ExecContextGlobalOnly(blockContext, global, periodsFromStart) ==
    Spread(global,
           DefaultInputs(FromInt(periodsFromStart),
                         PersistedTotalPeriods(blockContext)))

\* variant: the persisted block context is spread over the global context
ExecContextLocalFirst(blockContext, global, periodsFromStart) ==
    Spread(Spread(global, blockContext),
           DefaultInputs(FromInt(periodsFromStart),
                         PersistedTotalPeriods(blockContext)))

\* { ...blockContext, ...globalContext, periods_from_start, total_periods }
ExecContext(blockContext, global, periodsFromStart) ==
    Spread(Spread(blockContext, global),
           DefaultInputs(FromInt(periodsFromStart),
                         PersistedTotalPeriods(blockContext)))

\* variant: a program failure leaves runGlobalSimulation
AfterProgramRethrow(threw, continueAt) == IF threw THEN "done" ELSE continueAt

\* try { executeCode(code, ctx) } catch (error) { console.error(...) }
\* the position the driver continues at after the program, thrown or not
AfterProgram(threw, continueAt) == continueAt

-----------------------------------------------------------------------------
(* Plan documents: the inputs of the runs that are explored                *)

\* the horizon age of the run, in years
EndAge == 1

\* new Date().getFullYear() at the time of the run
CurrentYear == 2025

HostOffsets == {0 - 5, 0, 2}

Day(y, m, d) == [y |-> y, m |-> m, d |-> d]

NoInputs == [n \in {} |-> <<>>]

BlockDef(id, startDate, endDate, frequency, inputs, init, execution, exports) ==
    [id |-> id,
     state |-> [startDate |-> startDate, endDate |-> endDate,
                frequency |-> frequency, inputs |-> inputs, init |-> init,
                execution |-> execution, exports |-> exports]]

\* "cash = 100"; one monthly block, "cash = 5 / k = 1", no exports
PlanOverwrite ==
    [globalInit |-> <<"cash", " ", "=", " ", "100">>,
     blocks |-> <<
        BlockDef("spend", Day(2025, 3, 10), Day(2025, 5, 10), "monthly",
                 NoInputs, <<>>,
                 <<"cash", " ", "=", " ", "5", "\n", "k", " ", "=", " ", "1">>,
                 <<>>) >>]

\* "cash = 1000"; one monthly block of two periods, "rate = 0.1",
\* "cash = cash + cash * rate", no exports
PlanCompound ==
    [globalInit |-> <<"cash", " ", "=", " ", "1000">>,
     blocks |-> <<
        BlockDef("growth", Day(2025, 1, 15), Day(2025, 2, 15), "monthly",
                 NoInputs,
                 <<"rate", " ", "=", " ", "0.1">>,
                 <<"cash", " ", "=", " ", "cash", " ", "+", " ",
                   "cash", " ", "*", " ", "rate">>,
                 <<>>) >>]

\* "a = 0"; three daily blocks: "b = a" exporting b, "a = a + 1", and
\* "c = a" exporting c
PlanOrder ==
    [globalInit |-> <<"a", " ", "=", " ", "0">>,
     blocks |-> <<
        BlockDef("before", Day(2025, 3, 1), Day(2025, 3, 4), "daily",
                 NoInputs, <<>>, <<"b", " ", "=", " ", "a">>, <<"b">>),
        BlockDef("counter", Day(2025, 3, 1), Day(2025, 3, 4), "daily",
                 NoInputs, <<>>,
                 <<"a", " ", "=", " ", "a", " ", "+", " ", "1">>, <<>>),
        BlockDef("after", Day(2025, 3, 1), Day(2025, 3, 4), "daily",
                 NoInputs, <<>>, <<"c", " ", "=", " ", "a">>, <<"c">>) >>]

\* "k = 1 / q = nope / z = 2" (fails at line 2); a block whose init fails,
\* a block whose execution fails at line 2 every day, and a block after them
PlanFailures ==
    [globalInit |-> <<"k", "=", "1", "\n", "q", "=", "nope", "\n",
                      "z", "=", "2">>,
     blocks |-> <<
        BlockDef("badinit", Day(2025, 6, 1), Day(2025, 6, 3), "daily",
                 NoInputs,
                 <<"m", " ", "=", " ", "nope", " ", "+", " ", "1">>,
                 <<"k", " ", "=", " ", "k", " ", "+", " ", "1">>,
                 <<"m", ",", " ", "ghost">>),
        BlockDef("badexec", Day(2025, 6, 2), Day(2025, 6, 4), "daily",
                 NoInputs,
                 <<"r", " ", "=", " ", "1">>,
                 <<"r", "=", "r", "+", "1", "\n", "w", "=", "nope", "*", "2",
                   "\n", "r", "=", "0">>,
                 <<"r", ",", "w">>),
        BlockDef("last", Day(2025, 6, 1), Day(2025, 6, 4), "daily",
                 NoInputs, <<>>, <<"c", " ", "=", " ", "k">>, <<"c">>) >>]

\* "cash = 100"; a monthly block that starts before the first simulated day,
\* a yearly block that ends after the last one, a block that is never
\* active, and a monthly block that starts on the 31st
PlanLate ==
    [globalInit |-> <<"cash", " ", "=", " ", "100">>,
     blocks |-> <<
        BlockDef("salary", Day(2024, 12, 15), Day(2025, 3, 15), "monthly",
                 NoInputs,
                 <<"pay", " ", "=", " ", "0">>,
                 <<"pay", " ", "=", " ", "pay", " ", "+", " ", "1">>,
                 <<"pay">>),
        BlockDef("gift", Day(2025, 7, 4), Day(2027, 7, 4), "yearly",
                 [n \in {"bonus"} |-> <<"5">>], <<>>,
                 <<"cash", " ", "=", " ", "cash", " ", "+", " ", "bonus">>,
                 <<>>),
        BlockDef("never", Day(2030, 1, 1), Day(2030, 1, 5), "daily",
                 NoInputs, <<>>, <<"cash", " ", "=", " ", "0">>, <<>>),
        BlockDef("monthend", Day(2025, 1, 31), Day(2025, 6, 30), "monthly",
                 NoInputs,
                 <<"m", " ", "=", " ", "0">>,
                 <<"m", " ", "=", " ", "m", " ", "+", " ", "1">>,
                 <<" ", "m", " ">>) >>]

\* "periods_from_start = 50"; a monthly block whose programs assign the two
\* default inputs and which exports total_periods, and a daily, a monthly and
\* a yearly block of one day each, "t = total_periods" exporting t
PlanPeriods ==
    [globalInit |-> <<"periods_from_start", " ", "=", " ", "50">>,
     blocks |-> <<
        BlockDef("tamper", Day(2025, 1, 15), Day(2025, 4, 15), "monthly",
                 NoInputs,
                 <<"total_periods", " ", "=", " ", "99">>,
                 <<"periods_from_start", " ", "=", " ", "7", "\n",
                   "total_periods", " ", "=", " ", "total_periods", " ", "+",
                   " ", "1">>,
                 <<"total_periods">>),
        BlockDef("oneday", Day(2025, 4, 10), Day(2025, 4, 10), "daily",
                 NoInputs, <<>>,
                 <<"t", " ", "=", " ", "total_periods">>, <<"t">>),
        BlockDef("onemonth", Day(2025, 4, 10), Day(2025, 4, 10), "monthly",
                 NoInputs, <<>>,
                 <<"t", " ", "=", " ", "total_periods">>, <<"t">>),
        BlockDef("oneyear", Day(2025, 4, 10), Day(2025, 4, 10), "yearly",
                 NoInputs, <<>>,
                 <<"t", " ", "=", " ", "total_periods">>, <<"t">>) >>]

\* "g = 1"; a monthly block with an input secret, the private v and the
\* helper h, "h = h + v", no exports; and a later monthly block that holds
\* an h of its own and exports v and u
PlanPrivacy ==
    [globalInit |-> <<"g", " ", "=", " ", "1">>,
     blocks |-> <<
        BlockDef("owner", Day(2025, 2, 10), Day(2025, 5, 10), "monthly",
                 [n \in {"secret"} |-> <<"3">>],
                 <<"v", " ", "=", " ", "1", "\n", "h", " ", "=", " ", "0">>,
                 <<"h", " ", "=", " ", "h", " ", "+", " ", "v">>,
                 <<>>),
        BlockDef("other", Day(2025, 3, 20), Day(2025, 4, 20), "monthly",
                 NoInputs,
                 <<"v", " ", "=", " ", "50", "\n", "h", " ", "=", " ", "9">>,
                 <<"u", " ", "=", " ", "v", " ", "+", " ", "g">>,
                 <<"v", ",", " ", "u">>) >>]

\* "cash = 7"; a block with the id and the variable names of PlanOverwrite:
\* monthly from the 31st, "k = 0", "k = k + 1 / cash = cash + k", exporting k
PlanTwin ==
    [globalInit |-> <<"cash", " ", "=", " ", "7">>,
     blocks |-> <<
        BlockDef("spend", Day(2025, 1, 31), Day(2025, 6, 30), "monthly",
                 NoInputs,
                 <<"k", " ", "=", " ", "0">>,
                 <<"k", " ", "=", " ", "k", " ", "+", " ", "1", "\n",
                   "cash", " ", "=", " ", "cash", " ", "+", " ", "k">>,
                 <<"k">>) >>]

\* the values of the input fields of the block "seeded": a number, a decimal,
\* a word, the empty text, a number for the name of a global, a number
\* followed by a letter and a number after a space
SeededInputs ==
    [n \in {"bonus", "rate", "w", "z", "cash", "y", "q"} |->
        CASE n = "bonus" -> <<"5">>
          [] n = "rate"  -> <<"0.5">>
          [] n = "w"     -> <<"nope">>
          [] n = "z"     -> <<>>
          [] n = "cash"  -> <<"7">>
          [] n = "y"     -> <<"2", "k">>
          [] n = "q"     -> <<" ", "3">>]

\* "cash = 100"; a monthly block with seven inputs whose init program adds
\* them up, "r = r + bonus", exporting r; and a daily block of two days with
\* the empty input z, "x = z / z) //", exporting x
PlanInputs ==
    [globalInit |-> <<"cash", " ", "=", " ", "100">>,
     blocks |-> <<
        BlockDef("seeded", Day(2025, 2, 10), Day(2025, 3, 10), "monthly",
                 SeededInputs,
                 <<"r", " ", "=", " ", "bonus", " ", "+", " ", "rate", " ",
                   "+", " ", "w", " ", "+", " ", "z", " ", "+", " ", "cash",
                   " ", "+", " ", "y", " ", "+", " ", "q">>,
                 <<"r", " ", "=", " ", "r", " ", "+", " ", "bonus">>,
                 <<"r">>),
        BlockDef("hole", Day(2025, 4, 10), Day(2025, 4, 11), "daily",
                 [n \in {"z"} |-> <<>>], <<>>,
                 <<"x", " ", "=", " ", "z", " ", "/", " ", "z", ")", " ",
                   "/", "/">>,
                 <<"x">>) >>]

Plans ==
    {PlanOverwrite, PlanCompound, PlanOrder, PlanFailures, PlanLate,
     PlanPeriods, PlanPrivacy, PlanInputs}

\* AppPage: birthDate = new Date(currentYear - currentAge, 0, 1); endAge
SimulationInput(plan, currentAge, off) ==
    [globalInit |-> plan.globalInit,
     blocks |-> plan.blocks,
     birthDate |-> NewLocalDate(CurrentYear - currentAge, 1, 1, off),
     currentAge |-> currentAge,
     endAge |-> EndAge]

-----------------------------------------------------------------------------
(* runGlobalSimulation as a state machine                                  *)

VARIABLES
    input,          \* the SimulationInput of the run
    hostOffset,     \* the host's UTC offset, in hours
    pc,             \* position in runGlobalSimulation
    heap,           \* the context objects: globalContext and the snapshots'
    snapshots,      \* the SimulationSnapshot array, contexts by reference
    blockContexts,  \* Map block id -> block context
    endDate,        \* last day of the run
    currentDate,    \* loop variable of the day loop
    blockIndex,     \* position of the block loop in input.blocks
    initRuns,       \* per block: init phases run so far
    execRuns,       \* per block: execution phases run so far
    thrown,         \* program failures caught so far
    log,            \* what the block loop did on the current day
    call,           \* a single call of an exported function, with its arguments
    outcome,        \* what that call returned, threw and left in its context
    returned,       \* the results of the runs that have returned before this one
    pending,        \* the runs that are to be made after this one
    kv,             \* the worker's KV namespace FINANCIAL_PLANS: key -> text
    wire,           \* the HTTP requests and responses under way
    served,         \* the requests the worker has handled, with its responses
    planState,      \* AppPage: the editable plan (ages and blocks)
    isSaved,        \* AppPage: the save-status indicator
    isLoading,      \* AppPage: the plan is being fetched
    timeoutId,      \* AppPage: the pending debounce timer and what it captured
    saveFailed,     \* a save request has failed
    sent            \* the requests sent so far

driverVars == <<input, hostOffset, pc, heap, snapshots, blockContexts, endDate,
                currentDate, blockIndex, initRuns, execRuns, thrown, log>>

callVars == <<call, outcome>>

processVars == <<returned, pending>>

persistVars == <<kv, wire, served, planState, isSaved, isLoading, timeoutId,
                 saveFailed, sent>>

vars == <<driverVars, callVars, processVars, persistVars>>

\* no single call is under study
NoCall == [op |-> "none"]

Pending == [done |-> FALSE]

\* the object globalContext refers to
GlobalRef == 0

globalContext == heap[GlobalRef]

NumBlocks == Len(input.blocks)

block == input.blocks[blockIndex]

\* the context a snapshot holds
SnapshotContext(k) == heap[snapshots[k].context]

\* variant: the day loop stops before the end date
LoopTestExclusive(date, end) == date < end

\* the day loop's test: currentDate <= endDate
LoopTest(date, end) == date <= end

\* variant: the initialisation mark is never found
IsInitializedNever(contexts, id) == FALSE

\* blockContexts.get(id) is defined
IsInitialized(contexts, id) == id \in DOMAIN contexts

\* variant: the snapshot holds a reference to globalContext itself
SnapshotAlias(fresh) == GlobalRef

\* the object a new snapshot holds: a fresh copy, { ...globalContext }
SnapshotObject(fresh) == fresh

Event(op, b, threw, read, wrote) ==
    [op |-> op, block |-> b, threw |-> threw, read |-> read, wrote |-> wrote]

\* no timer is pending
NoTimer == [armed |-> FALSE, currentAge |-> 0, blocks |-> 0]

\* no page is open and the worker has served nothing
NoPage ==
    /\ kv = [key \in {} |-> 0]
    /\ wire = {}
    /\ served = <<>>
    /\ planState = [currentAge |-> 25, blocks |-> 0]
    /\ isSaved = TRUE
    /\ isLoading = TRUE
    /\ timeoutId = NoTimer
    /\ saveFailed = FALSE
    /\ sent = 0

Init ==
    /\ hostOffset \in HostOffsets
    /\ \E plan \in Plans : input = SimulationInput(plan, 0, hostOffset)
    /\ pc = "globalInit"
    /\ heap = [r \in {GlobalRef} |-> EmptyContext]
    /\ snapshots = <<>>
    /\ blockContexts = [id \in {} |-> EmptyContext]
    /\ endDate = input.birthDate
    /\ currentDate = input.birthDate
    /\ blockIndex = 1
    /\ initRuns = [b \in 1..Len(input.blocks) |-> 0]
    /\ execRuns = [b \in 1..Len(input.blocks) |-> 0]
    /\ thrown = 0
    /\ log = <<>>
    /\ call = NoCall
    /\ outcome = Pending
    /\ returned = <<>>
    /\ pending = <<>>
    /\ NoPage

\* if (code.trim()) { try { executeCode(code, ctx) } catch { ... } }
RunIfNotBlank(code, ctx) ==
    IF Trim(code) # <<>> THEN executeCode(code, ctx)
    ELSE [threw |-> FALSE, context |-> ctx]

\* variant: a failed global init program leaves globalContext empty
GlobalInitDoneRollback(r) ==
    /\ heap' = [heap EXCEPT ![GlobalRef] =
                   IF r.threw THEN EmptyContext ELSE r.context]
    /\ thrown' = thrown + (IF r.threw THEN 1 ELSE 0)
    /\ pc' = AfterProgram(r.threw, "loop")

\* the global init program has run with outcome r
GlobalInitDone(r) ==
    /\ heap' = [heap EXCEPT ![GlobalRef] = r.context]
    /\ thrown' = thrown + (IF r.threw THEN 1 ELSE 0)
    /\ pc' = AfterProgram(r.threw, "loop")

\* lines 44-62: the global init program, then the date range
GlobalInitPhase ==
    /\ pc = "globalInit"
    /\ \E r \in {RunIfNotBlank(input.globalInit, globalContext)} :
          GlobalInitDone(r)
    /\ endDate' = setFullYear(input.birthDate,
                     getFullYear(input.birthDate, hostOffset) + input.endAge,
                     hostOffset)
    /\ currentDate' = input.birthDate
    /\ UNCHANGED <<input, hostOffset, snapshots, blockContexts, blockIndex,
                   initRuns, execRuns, log>>
    /\ UNCHANGED <<callVars, processVars, persistVars>>

\* lines 65-71: the day loop's test holds, the block loop starts
BeginDay ==
    /\ pc = "loop"
    /\ LoopTest(currentDate, endDate)
    /\ pc' = "block"
    /\ blockIndex' = 1
    /\ log' = <<>>
    /\ UNCHANGED <<input, hostOffset, heap, snapshots, blockContexts, endDate,
                   currentDate, initRuns, execRuns, thrown>>
    /\ UNCHANGED <<callVars, processVars, persistVars>>

\* lines 72-78: the block is out of its date range
SkipInactive ==
    /\ pc = "block"
    /\ blockIndex <= NumBlocks
    /\ OutOfRange(currentDate, block.state)
    /\ blockIndex' = blockIndex + 1
    /\ log' = Append(log, Event("skip", blockIndex, FALSE, EmptyContext,
                                EmptyContext))
    /\ UNCHANGED <<input, hostOffset, pc, heap, snapshots, blockContexts,
                   endDate, currentDate, initRuns, execRuns, thrown>>
    /\ UNCHANGED <<callVars, processVars, persistVars>>

\* variant: the init phase persists the block's context and lifts nothing
InitResolvedPrivate(initContext, r, exportVars) ==
    /\ heap' = heap
    /\ blockContexts' =
          [id \in DOMAIN blockContexts \cup {block.id} |->
              IF id = block.id THEN r.context ELSE blockContexts[id]]
    /\ thrown' = thrown + (IF r.threw THEN 1 ELSE 0)
    /\ pc' = AfterProgram(r.threw, "fire")
    /\ log' = Append(log, Event("init", blockIndex, r.threw, initContext,
                                Lifted(exportVars, r.context)))

\* lines 109-124: the init program has run on initContext with outcome r
InitResolved(initContext, r, exportVars) ==
    /\ heap' = [heap EXCEPT ![GlobalRef] =
                   CopyExports(exportVars, r.context, globalContext)]
    /\ blockContexts' =
          [id \in DOMAIN blockContexts \cup {block.id} |->
              IF id = block.id THEN r.context ELSE blockContexts[id]]
    /\ thrown' = thrown + (IF r.threw THEN 1 ELSE 0)
    /\ pc' = AfterProgram(r.threw, "fire")
    /\ log' = Append(log, Event("init", blockIndex, r.threw, initContext,
                                Lifted(exportVars, r.context)))

\* lines 100-107
InitProgram(initContext) ==
    \E r \in {RunIfNotBlank(block.state.init, initContext)} :
       InitResolved(initContext, r,
                    ExportVars(block.state.exports, globalContext))

\* lines 80-124: the init phase of a block without a context
InitBlock ==
    /\ pc = "block"
    /\ blockIndex <= NumBlocks
    /\ ~OutOfRange(currentDate, block.state)
    /\ ~IsInitialized(blockContexts, block.id)
    /\ \E initContext \in
             {InitContext(globalContext,
                 calculateTotalPeriods(ParseDateString(block.state.startDate),
                                       ParseDateString(block.state.endDate),
                                       block.state.frequency, hostOffset),
                 block.state.inputs)} :
          InitProgram(initContext)
    /\ initRuns' = [initRuns EXCEPT ![blockIndex] = @ + 1]
    /\ UNCHANGED <<input, hostOffset, snapshots, endDate, currentDate,
                   blockIndex, execRuns>>
    /\ UNCHANGED <<callVars, processVars, persistVars>>

\* the block loop stands at the frequency check of line 127
AtFrequencyCheck ==
    \/ pc = "fire"
    \/ /\ pc = "block"
       /\ blockIndex <= NumBlocks
       /\ ~OutOfRange(currentDate, block.state)
       /\ IsInitialized(blockContexts, block.id)

\* variant: a block that does not execute still lifts its exports from its
\* persisted context
NoFireExports ==
    /\ AtFrequencyCheck
    /\ ~shouldBlockExecute(currentDate, block.state, hostOffset)
    /\ pc' = "block"
    /\ blockIndex' = blockIndex + 1
    /\ log' = Append(log, Event("nofire", blockIndex, FALSE, EmptyContext,
                                EmptyContext))
    /\ heap' = [heap EXCEPT ![GlobalRef] =
                   CopyExports(ExportVars(block.state.exports, globalContext),
                               blockContexts[block.id], globalContext)]
    /\ UNCHANGED <<input, hostOffset, snapshots, blockContexts, endDate,
                   currentDate, initRuns, execRuns, thrown>>
    /\ UNCHANGED <<callVars, processVars, persistVars>>

\* lines 126-129: the block does not execute on this date
NoFire ==
    /\ AtFrequencyCheck
    /\ ~shouldBlockExecute(currentDate, block.state, hostOffset)
    /\ pc' = "block"
    /\ blockIndex' = blockIndex + 1
    /\ log' = Append(log, Event("nofire", blockIndex, FALSE, EmptyContext,
                                EmptyContext))
    /\ UNCHANGED <<input, hostOffset, heap, snapshots, blockContexts, endDate,
                   currentDate, initRuns, execRuns, thrown>>
    /\ UNCHANGED <<callVars, processVars, persistVars>>

\* variant: after a failure the context the program started from is exported
\* and persisted
ExecResolvedRollback(execContext, r, exportVars) ==
    /\ heap' = [heap EXCEPT ![GlobalRef] =
                   CopyExports(exportVars,
                               IF r.threw THEN execContext ELSE r.context,
                               globalContext)]
    /\ blockContexts' = [blockContexts EXCEPT ![block.id] =
                            IF r.threw THEN execContext ELSE r.context]
    /\ thrown' = thrown + (IF r.threw THEN 1 ELSE 0)
    /\ pc' = AfterProgram(r.threw, "block")
    /\ log' = Append(log, Event("execution", blockIndex, r.threw, execContext,
                                Lifted(exportVars, r.context)))

\* lines 161-177: the execution program has run on execContext with outcome r
ExecResolved(execContext, r, exportVars) ==
    /\ heap' = [heap EXCEPT ![GlobalRef] =
                   CopyExports(exportVars, r.context, globalContext)]
    /\ blockContexts' = [blockContexts EXCEPT ![block.id] = r.context]
    /\ thrown' = thrown + (IF r.threw THEN 1 ELSE 0)
    /\ pc' = AfterProgram(r.threw, "block")
    /\ log' = Append(log, Event("execution", blockIndex, r.threw, execContext,
                                Lifted(exportVars, r.context)))

\* lines 149-159
ExecProgram(execContext) ==
    \E r \in {executeCode(block.state.execution, execContext)} :
       ExecResolved(execContext, r,
                    ExportVars(block.state.exports, globalContext))

\* lines 131-177: the execution phase
Execute ==
    /\ AtFrequencyCheck
    /\ shouldBlockExecute(currentDate, block.state, hostOffset)
    /\ \E execContext \in
             {ExecContext(blockContexts[block.id], globalContext,
                 calculatePeriodsFromStart(
                    ParseDateString(block.state.startDate), currentDate,
                    block.state.frequency, hostOffset))} :
          ExecProgram(execContext)
    /\ blockIndex' = blockIndex + 1
    /\ execRuns' = [execRuns EXCEPT ![blockIndex] = @ + 1]
    /\ UNCHANGED <<input, hostOffset, snapshots, endDate, currentDate,
                   initRuns>>
    /\ UNCHANGED <<callVars, processVars, persistVars>>

\* lines 180-184 and 68: the day's snapshot, then the next day
Pushed(fresh) ==
    /\ heap' = [r \in DOMAIN heap \cup {fresh} |->
                   IF r = fresh THEN globalContext ELSE heap[r]]
    /\ snapshots' = Append(snapshots, [date |-> toISODate(currentDate),
                                        context |-> SnapshotObject(fresh)])

PushSnapshot ==
    /\ pc = "block"
    /\ blockIndex > NumBlocks
    /\ Pushed(Len(snapshots) + 1)
    /\ currentDate' = setDate(currentDate,
                              getDate(currentDate, hostOffset) + 1, hostOffset)
    /\ pc' = "loop"
    /\ UNCHANGED <<input, hostOffset, blockContexts, endDate, blockIndex,
                   initRuns, execRuns, thrown, log>>
    /\ UNCHANGED <<callVars, processVars, persistVars>>

\* line 187: the day loop's test fails, the snapshots are returned
Return ==
    /\ pc = "loop"
    /\ ~LoopTest(currentDate, endDate)
    /\ pc' = "done"
    /\ UNCHANGED <<input, hostOffset, heap, snapshots, blockContexts, endDate,
                   currentDate, blockIndex, initRuns, execRuns, thrown, log>>
    /\ UNCHANGED <<callVars, processVars, persistVars>>

Next ==
    \/ GlobalInitPhase
    \/ BeginDay
    \/ SkipInactive
    \/ InitBlock
    \/ NoFire
    \/ Execute
    \/ PushSnapshot
    \/ Return

Spec == Init /\ [][Next]_vars

\* the run is one synchronous call: it keeps running until it returns
FairSpec == Spec /\ WF_vars(Next)

-----------------------------------------------------------------------------
(* Single calls of evaluateExpression, executeCode and shouldBlockExecute   *)

\* contexts the calls are made with: {}, {a: 1, b: 5, z: 0} and {x: 1}
ContextAB ==
    [n \in {"a", "b", "z"} |->
        IF n = "a" THEN FromInt(1) ELSE IF n = "b" THEN FromInt(5) ELSE 0]

ContextX == [n \in {"x"} |-> FromInt(1)]

CallContexts == {EmptyContext, ContextAB, ContextX}

\* expression texts: literals, arithmetic, texts with a leading literal,
\* divisions by zero, banned characters, periods, unbound names, broken
\* syntax and calls of a host function
Expressions ==
    {<<>>, <<" ">>, <<"2">>, <<"0.5">>, <<" ", "5", " ">>,
     <<"2", " ", "+", " ", "2">>,
     <<"(", "2", " ", "+", " ", "2", ")">>,
     <<"a", " ", "+", " ", "2">>,
     <<"(", "a", " ", "+", " ", "2", ")", " ", "*", " ", "b">>,
     <<"a", "*", "2", "+", "b">>,
     <<"-", "a">>,
     <<"a", " ", "/", " ", "z">>,
     <<"-", "a", "/", "z">>,
     <<"z", "/", "z">>,
     <<"x", "[", "0", "]">>,
     <<"2", " ", "+", " ", "x", "[", "0", "]">>,
     <<"a", " ", "+", " ", "b", "[", "0", "]">>,
     <<"a", ".", "b">>,
     <<"nope", " ", "+", " ", "1">>,
     <<"a", " ", "+">>,
     <<"Number", "(", "a", ")">>,
     <<"Number", "(", "a", ")", " ", "+", " ", "1">>}

\* program texts
ProgramDouble ==
    <<"x", " ", "=", " ", "5", "\n", "y", " ", "=", " ", "x", " ", "*", " ",
      "2">>

ProgramCommented ==
    <<"#", " ", "a", "\n", "\n", "x", " ", "=", " ", "5", "\n", " ", " ",
      "\n", " ", "y", " ", "=", " ", "x", " ", "*", " ", "2", "\n",
      "#", "y", "=", "0">>

ProgramUnbound ==
    <<"a", " ", "=", " ", "2", "\n", "b", " ", "=", " ", "nope", " ", "+",
      " ", "1", "\n", "c", " ", "=", " ", "2">>

ProgramSyntax ==
    <<"a", " ", "=", " ", "2", "\n", "b", " ", "=", " ", "a", " ", "+",
      "\n", "c", " ", "=", " ", "2">>

ProgramBracket ==
    <<"x", " ", "=", " ", "a", "[", "0", "]", "\n", "y", " ", "=", " ", "1">>

ProgramPeriod ==
    <<"x", " ", "=", " ", "a", ".", "b", "\n", "y", " ", "=", " ", "1">>

ProgramNoEquals ==
    <<"x", " ", "=", " ", "1", "\n", "foo", "\n", "y", " ", "=", " ", "2">>

ProgramDivision ==
    <<"q", " ", "=", " ", "a", " ", "/", " ", "z", "\n",
      "r", " ", "=", " ", "z", " ", "/", " ", "z">>

ProgramPrefix == <<"m", " ", "=", " ", "2", " ", "+", " ", "2">>

Programs ==
    {ProgramDouble, ProgramCommented, ProgramUnbound, ProgramSyntax,
     ProgramBracket, ProgramPeriod, ProgramNoEquals, ProgramDivision,
     ProgramPrefix}

\* block states the scheduling function is called with
ScheduleOf(first, last, frequency) ==
    BlockDef("b", first, last, frequency, NoInputs, <<>>, <<>>, <<>>).state

Schedules ==
    {ScheduleOf(Day(2025, 1, 15), Day(2025, 12, 15), "monthly"),
     ScheduleOf(Day(2025, 1, 31), Day(2025, 6, 30), "monthly"),
     ScheduleOf(Day(2024, 7, 4), Day(2026, 7, 4), "yearly"),
     ScheduleOf(Day(2025, 2, 1), Day(2025, 2, 10), "daily")}

\* the calendar days of the current year
DaysOfYear ==
    {day \in {Day(CurrentYear, m, d) : m \in 1..12, d \in 1..31} :
        day.d <= DaysInMonth(day.y, day.m)}

EvaluateCalls ==
    {[op |-> "evaluateExpression", expr |-> e, context |-> ctx,
      raise_errors |-> raise] :
        e \in Expressions, ctx \in CallContexts, raise \in BOOLEAN}

ExecuteCalls ==
    {[op |-> "executeCode", code |-> p, context |-> ctx] :
        p \in Programs, ctx \in CallContexts}

\* the driver calls shouldBlockExecute with the host-zone midnight of a day
ScheduleCalls(off) ==
    {[op |-> "shouldBlockExecute", day |-> day,
      date |-> NewLocalDate(day.y, day.m, day.d, off), blockState |-> st] :
        day \in DaysOfYear, st \in Schedules}

Outcome(threw, value, context) ==
    [done |-> TRUE, threw |-> threw, value |-> value, context |-> context]

\* one call is made on a host; the driver is not running
CallInit ==
    /\ hostOffset \in HostOffsets
    /\ call \in ScheduleCalls(hostOffset)
                   \cup (IF hostOffset = 0
                         THEN EvaluateCalls \cup ExecuteCalls ELSE {})
    /\ outcome = Pending
    /\ returned = <<>>
    /\ pending = <<>>
    /\ input = SimulationInput(PlanOverwrite, 0, hostOffset)
    /\ pc = "idle"
    /\ heap = [r \in {GlobalRef} |-> EmptyContext]
    /\ snapshots = <<>>
    /\ blockContexts = [id \in {} |-> EmptyContext]
    /\ endDate = input.birthDate
    /\ currentDate = input.birthDate
    /\ blockIndex = 1
    /\ initRuns = [b \in 1..Len(input.blocks) |-> 0]
    /\ execRuns = [b \in 1..Len(input.blocks) |-> 0]
    /\ thrown = 0
    /\ log = <<>>
    /\ NoPage

\* evaluateExpression(expr, context, raise_errors)
EvaluateExpressionCall ==
    /\ call.op = "evaluateExpression"
    /\ ~outcome.done
    /\ \E r \in {evaluateExpression(call.expr, call.context,
                                    call.raise_errors)} :
          outcome' = Outcome(r.threw, r.value, call.context)
    /\ UNCHANGED <<call, driverVars, processVars, persistVars>>

\* executeCode(code, context)
ExecuteCodeCall ==
    /\ call.op = "executeCode"
    /\ ~outcome.done
    /\ \E r \in {executeCode(call.code, call.context)} :
          outcome' = Outcome(r.threw, 0, r.context)
    /\ UNCHANGED <<call, driverVars, processVars, persistVars>>

\* shouldBlockExecute(date, blockState)
ShouldBlockExecuteCall ==
    /\ call.op = "shouldBlockExecute"
    /\ ~outcome.done
    /\ outcome' = Outcome(FALSE,
                          shouldBlockExecute(call.date, call.blockState,
                                             hostOffset),
                          EmptyContext)
    /\ UNCHANGED <<call, driverVars, processVars, persistVars>>

CallNext ==
    \/ EvaluateExpressionCall
    \/ ExecuteCodeCall
    \/ ShouldBlockExecuteCall

CallSpec == CallInit /\ [][CallNext]_vars

-----------------------------------------------------------------------------
(* Several runs of runGlobalSimulation, one after the other                *)

\* what a run returns: its snapshots, the contexts by value
Result ==
    [k \in 1..Len(snapshots) |->
        [date |-> snapshots[k].date, context |-> SnapshotContext(k)]]

\* a call of runGlobalSimulation: its argument and the zone the host is in
\* when the call is made
RunCall(in, host) == [input |-> in, host |-> host]

\* a host in another zone
OtherHost(host) == IF host = 0 THEN 0 - 5 ELSE 0

ProcessPlans == {PlanOverwrite, PlanTwin}

\* the runs that follow the run of the first plan in one process: a second
\* plan, then the first plan once more
RunsOf(first, second, host) ==
    <<RunCall(SimulationInput(second, 0, host), host),
      RunCall(SimulationInput(first, 0, host), host)>>

\* the run that follows the run of a plan when the host changes its zone:
\* the same input again
RunAgain(plan, host) ==
    <<RunCall(SimulationInput(plan, 0, host), OtherHost(host))>>

\* the first run of a sequence of runs
FirstRun(plan, runs) ==
    /\ input = SimulationInput(plan, 0, hostOffset)
    /\ pending = runs
    /\ returned = <<>>
    /\ pc = "globalInit"
    /\ heap = [r \in {GlobalRef} |-> EmptyContext]
    /\ snapshots = <<>>
    /\ blockContexts = [id \in {} |-> EmptyContext]
    /\ endDate = input.birthDate
    /\ currentDate = input.birthDate
    /\ blockIndex = 1
    /\ initRuns = [b \in 1..Len(input.blocks) |-> 0]
    /\ execRuns = [b \in 1..Len(input.blocks) |-> 0]
    /\ thrown = 0
    /\ log = <<>>
    /\ call = NoCall
    /\ outcome = Pending
    /\ NoPage

ProcessInit ==
    /\ hostOffset \in HostOffsets
    /\ \E first \in ProcessPlans, second \in ProcessPlans :
          FirstRun(first, RunsOf(first, second, hostOffset))

HostsInit ==
    /\ hostOffset \in HostOffsets
    /\ \E plan \in ProcessPlans : FirstRun(plan, RunAgain(plan, hostOffset))

\* line 45: const globalContext = {}, an object of this run
FreshGlobalContext(previous) == EmptyContext

\* variant: blockContexts is one Map for all the runs
BlockContextsShared(previous) == previous

\* line 57: const blockContexts = new Map(), a Map of this run
FreshBlockContexts(previous) == [id \in {} |-> EmptyContext]

\* the locals of a new run of the function (lines 45, 56, 57)
Locals(next) ==
    /\ input' = next.input
    /\ hostOffset' = next.host
    /\ heap' = [r \in {GlobalRef} |-> FreshGlobalContext(globalContext)]
    /\ snapshots' = <<>>
    /\ blockContexts' = FreshBlockContexts(blockContexts)
    /\ endDate' = next.input.birthDate
    /\ currentDate' = next.input.birthDate
    /\ blockIndex' = 1
    /\ initRuns' = [b \in 1..Len(next.input.blocks) |-> 0]
    /\ execRuns' = [b \in 1..Len(next.input.blocks) |-> 0]
    /\ thrown' = 0
    /\ log' = <<>>

\* the run has returned its snapshots to the caller; the next call is made
NextCall ==
    /\ pc = "done"
    /\ pending # <<>>
    /\ returned' = Append(returned, [input |-> input, host |-> hostOffset,
                                     snapshots |-> Result])
    /\ pending' = Tail(pending)
    /\ Locals(Head(pending))
    /\ pc' = "globalInit"
    /\ UNCHANGED <<callVars, persistVars>>

ProcessNext ==
    \/ GlobalInitPhase
    \/ BeginDay
    \/ SkipInactive
    \/ InitBlock
    \/ NoFire
    \/ Execute
    \/ PushSnapshot
    \/ Return
    \/ NextCall

ProcessSpec == ProcessInit /\ [][ProcessNext]_vars

HostsSpec == HostsInit /\ [][ProcessNext]_vars

-----------------------------------------------------------------------------
(* Properties                                                              *)

Defaults == {"periods_from_start", "total_periods"}

\* the block loop has processed every block of the current day
EndOfDay == pc = "block" /\ blockIndex > NumBlocks

\* the events of an operation on block b in the current day's log
EventsToday(op, b) ==
    {k \in 1..Len(log) : log[k].op = op /\ log[k].block = b}

\* the instants the day loop visits: one per day from birthDate to
\* birthDate plus endAge years
SimulatedDays ==
    {input.birthDate + HoursPerDay * k :
        k \in 0..((NewLocalDate(CurrentYear - input.currentAge + input.endAge,
                                1, 1, hostOffset) - input.birthDate)
                    \div HoursPerDay)}

RunsPlan(plan) == input.blocks = plan.blocks

LastSnapshot == SnapshotContext(Len(snapshots))

\* C1: whenever an execution program has run, every name that was a key of
\* globalContext before the run has in globalContext the value it has in the
\* block's execContext after the program, declared export or not; with
\* globalContext {cash: 100} and a block computing cash = 5 (and a private
\* k = 1) without exports, the global cash becomes 5 and k stays private
C1_ExportOverwrite ==
    [][execRuns' # execRuns =>
         /\ \A n \in Keys(globalContext) :
               n \in Keys(blockContexts'[block.id]) =>
                  heap'[GlobalRef][n] = blockContexts'[block.id][n]
         /\ RunsPlan(PlanOverwrite) =>
               /\ execRuns[1] = 0 => globalContext["cash"] = FromInt(100)
               /\ heap'[GlobalRef] = [n \in {"cash"} |-> FromInt(5)]
               /\ blockContexts'[block.id]["k"] = FromInt(1)]_vars

C1_Witness ==
    /\ RunsPlan(PlanOverwrite)
    /\ execRuns[1] = 1
    /\ "cash" \notin ExplicitExports(input.blocks[1].state.exports)
    /\ globalContext["cash"] = FromInt(5)
    /\ snapshots # <<>>
    /\ LastSnapshot["cash"] = FromInt(100)

\* the global cash of the compounding plan after n firings
Compounded(n) ==
    IF n = 0 THEN FromInt(1000)
    ELSE IF n = 1 THEN FromInt(1100)
    ELSE FromInt(1210)

C3_InitOnceExecutionPerFiringDay ==
    /\ \A b \in 1..NumBlocks :
          /\ initRuns[b] <= 1
          /\ execRuns[b] > 0 => initRuns[b] = 1
    /\ EndOfDay =>
          \A b \in 1..NumBlocks :
             /\ Cardinality(EventsToday("execution", b)) =
                   (IF shouldBlockExecute(currentDate, input.blocks[b].state,
                                          hostOffset) THEN 1 ELSE 0)
             /\ Cardinality(EventsToday("init", b)) <= 1
             /\ \A i \in EventsToday("init", b) :
                   /\ ~OutOfRange(currentDate, input.blocks[b].state)
                   /\ \/ currentDate = input.birthDate
                      \/ OutOfRange(currentDate - HoursPerDay,
                                    input.blocks[b].state)
                   /\ \A e \in EventsToday("execution", b) : i < e
             /\ ~OutOfRange(currentDate, input.blocks[b].state) =>
                   initRuns[b] = 1
    /\ pc = "done" =>
          \A b \in 1..NumBlocks :
             /\ initRuns[b] =
                   (IF \E d \in SimulatedDays :
                          ~OutOfRange(d, input.blocks[b].state)
                    THEN 1 ELSE 0)
             /\ execRuns[b] =
                   Cardinality({d \in SimulatedDays :
                      shouldBlockExecute(d, input.blocks[b].state, hostOffset)})

\* a block was initialised on a day on which it does not execute, and has
\* executed on a later day
C3_Witness ==
    /\ RunsPlan(PlanLate)
    /\ EndOfDay
    /\ initRuns[1] = 1
    /\ execRuns[1] = 2
    /\ EventsToday("execution", 1) # {}
    /\ EventsToday("init", 1) = {}
    /\ initRuns[3] = 0

\* the events before the j-th of the current day that assigned name n in
\* globalContext, and the latest of them
Writers(j, n) == {i \in 1..(j - 1) : n \in Keys(log[i].wrote)}

Latest(events) == CHOOSE i \in events : \A k \in events : k <= i

\* the value the j-th event of the day read for name n is the one the latest
\* earlier event of the day assigned, or else the one of the previous day's
\* snapshot
ReadsLatest(j, n) ==
    IF Writers(j, n) # {}
    THEN log[j].read[n] = log[Latest(Writers(j, n))].wrote[n]
    ELSE (snapshots # <<>> /\ n \in Keys(LastSnapshot)) =>
            log[j].read[n] = LastSnapshot[n]

\* C4: within a day the blocks are processed in list order, and the value an
\* execution program reads for a name is the one the latest earlier block of
\* the same day exported, or else the one globalContext had at the end of the
\* previous day, so an export of a later block reaches an earlier block on
\* its next firing only; with the daily blocks "b = a", "a = a + 1" and
\* "c = a" in this order, each day ends with c = a and b = a - 1
C4_ListOrder ==
    pc \in {"block", "fire"} =>
       /\ \A j \in 1..Len(log) :
             /\ \A i \in 1..(j - 1) : log[i].block <= log[j].block
             /\ log[j].op = "execution" =>
                   \A n \in Keys(log[j].read) \ Defaults : ReadsLatest(j, n)
       /\ (RunsPlan(PlanOrder) /\ EndOfDay
             /\ EventsToday("execution", 2) # {}) =>
             /\ globalContext["a"] = FromInt(execRuns[2])
             /\ globalContext["c"] = globalContext["a"]
             /\ globalContext["b"] = FromInt(execRuns[2] - 1)

C4_Witness ==
    /\ RunsPlan(PlanOrder)
    /\ EndOfDay
    /\ Len(log) = 3
    /\ \A j \in 1..3 : log[j].op = "execution" /\ log[j].block = j
    /\ log[1].read["a"] = FromInt(1)
    /\ log[2].wrote["a"] = FromInt(2)
    /\ log[3].read["a"] = FromInt(2)
    /\ globalContext["b"] = FromInt(1)
    /\ globalContext["c"] = FromInt(2)

\* C5: a step of the run leaves the date and the context of every snapshot
\* appended so far as they are
C5_SnapshotsImmutable ==
    [][\A k \in 1..Len(snapshots) :
          /\ Len(snapshots') >= k
          /\ snapshots'[k].date = snapshots[k].date
          /\ heap'[snapshots'[k].context] = heap[snapshots[k].context]]_vars

C5_Witness ==
    /\ Len(snapshots) >= 2
    /\ SnapshotContext(1) # globalContext
    /\ SnapshotContext(1) # LastSnapshot
    /\ Keys(SnapshotContext(1)) # Keys(globalContext)

\* the number of days from birthDate to birthDate plus endAge years, both
\* included
NumberOfDays ==
    (NewLocalDate(CurrentYear - input.currentAge + input.endAge, 1, 1,
                  hostOffset) - input.birthDate) \div HoursPerDay + 1

\* the dates of the snapshots k and k + 1 are one calendar day apart
OneDayApart(k) ==
    DaysFromCivil(snapshots[k + 1].date.y, snapshots[k + 1].date.m,
                  snapshots[k + 1].date.d)
       = DaysFromCivil(snapshots[k].date.y, snapshots[k].date.m,
                       snapshots[k].date.d) + 1

\* the latest snapshot is the one of its day of the range, one day after the
\* snapshot before it (snapshots being only appended, this holds of each)
SnapshotsInOrder ==
    snapshots # <<>> =>
       /\ Len(snapshots) <= NumberOfDays
       /\ snapshots[1].date = toISODate(input.birthDate)
       /\ snapshots[Len(snapshots)].date =
             toISODate(input.birthDate + HoursPerDay * (Len(snapshots) - 1))
       /\ Len(snapshots) >= 2 => OneDayApart(Len(snapshots) - 1)

\* the returned snapshots cover the range from birthDate to birthDate plus
\* endAge years, both days included
CoversRange ==
    pc = "done" =>
       /\ Len(snapshots) = NumberOfDays
       /\ snapshots[Len(snapshots)].date =
             toISODate(NewLocalDate(CurrentYear - input.currentAge
                                       + input.endAge, 1, 1, hostOffset))

\* a step that changes the snapshots appends one, after the last block of the
\* day, holding globalContext
AppendsAtEndOfDay ==
    snapshots' # snapshots =>
       /\ EndOfDay
       /\ Len(snapshots') = Len(snapshots) + 1
       /\ SubSeq(snapshots', 1, Len(snapshots)) = snapshots
       /\ heap'[snapshots'[Len(snapshots')].context] = globalContext

C7_KeysOnlyGrow ==
    [][/\ Keys(globalContext) \subseteq Keys(heap'[GlobalRef])
       /\ (Len(snapshots') > Len(snapshots) /\ snapshots # <<>>) =>
             Keys(LastSnapshot)
                \subseteq Keys(heap'[snapshots'[Len(snapshots')].context])]_vars

C7_Witness ==
    /\ RunsPlan(PlanFailures)
    /\ thrown >= 3
    /\ pc = "loop"
    /\ Len(snapshots) >= 2
    /\ Keys(SnapshotContext(Len(snapshots) - 1)) # Keys(LastSnapshot)
    /\ Keys(SnapshotContext(Len(snapshots) - 1)) \subseteq Keys(LastSnapshot)
    /\ "ghost" \in ExplicitExports(input.blocks[1].state.exports)
    /\ "ghost" \notin Keys(globalContext)
    /\ execRuns[1] >= 1

\* the instants the day loop has visited up to the current day
DaysSoFar ==
    {input.birthDate + HoursPerDay * k :
        k \in 0..((currentDate - input.birthDate) \div HoursPerDay)}

\* block b is within its date range on some day visited so far
ActiveSoFar(b) ==
    \E d \in DaysSoFar :
       /\ ParseDateString(input.blocks[b].state.startDate) <= d
       /\ d <= ParseDateString(input.blocks[b].state.endDate)

\* C8 as stated: at the end of every simulated day a block has a block-local
\* context if and only if its execution program has run at least once
C8_ContextIffFired ==
    EndOfDay =>
       \A b \in 1..NumBlocks :
          IsInitialized(blockContexts, input.blocks[b].id) <=> execRuns[b] >= 1

\* C8: at the end of every simulated day a block has a block-local context
\* if and only if it was within its date range on that day or an earlier
\* simulated day, that is if and only if its init phase has run; a block
\* whose execution program has run has one, the converse does not hold
C8_ContextIffActiveSoFar ==
    EndOfDay =>
       \A b \in 1..NumBlocks :
          /\ IsInitialized(blockContexts, input.blocks[b].id) <=> ActiveSoFar(b)
          /\ IsInitialized(blockContexts, input.blocks[b].id) <=>
                initRuns[b] = 1
          /\ execRuns[b] >= 1 =>
                IsInitialized(blockContexts, input.blocks[b].id)

C8_Witness ==
    /\ RunsPlan(PlanLate)
    /\ EndOfDay
    /\ currentDate = input.birthDate
    /\ IsInitialized(blockContexts, "salary")
    /\ EventsToday("init", 1) # {}
    /\ execRuns[1] = 0
    /\ ~IsInitialized(blockContexts, "never")

\* the calendar day the day loop simulates: the host-zone day of currentDate
Today == LocalFields(currentDate, hostOffset)

DayNumber(day) == DaysFromCivil(day.y, day.m, day.d)

\* day lies within startDate..endDate, compared as calendar days
InCalendarRange(day, blockState) ==
    /\ DayNumber(blockState.startDate) <= DayNumber(day)
    /\ DayNumber(day) <= DayNumber(blockState.endDate)

\* day is a firing day by the day and month written in startDate
FiresOn(day, blockState) ==
    /\ InCalendarRange(day, blockState)
    /\ blockState.frequency = "monthly" => day.d = blockState.startDate.d
    /\ blockState.frequency = "yearly" =>
          day.d = blockState.startDate.d /\ day.m = blockState.startDate.m

\* C9: for every host UTC offset, a block is processed on exactly the
\* calendar days startDate..endDate, its execution program runs on exactly
\* the days of that range that carry the day (and month) written in
\* startDate, startDate included, and each snapshot is labelled with the
\* calendar day that was simulated
C9_TimezoneStable ==
    /\ EndOfDay =>
          \A b \in 1..NumBlocks :
             /\ EventsToday("skip", b) = {} <=>
                   InCalendarRange(Today, input.blocks[b].state)
             /\ EventsToday("execution", b) # {} <=>
                   FiresOn(Today, input.blocks[b].state)
    /\ (pc = "loop" /\ snapshots # <<>>) =>
          snapshots[Len(snapshots)].date =
             LocalFields(currentDate - HoursPerDay, hostOffset)

\* the scheduling on a host whose zone is UTC
C9_StableOnUTC == hostOffset = 0 => C9_TimezoneStable

\* the events of the current day that stand for the failure of a program
FailuresToday == {j \in 1..Len(log) : log[j].threw}

\* C10: when a program of block b has failed on a day, every block after b
\* is processed on that day as its range and frequency demand; when the run
\* returns, the day loop has passed the end date, there is one snapshot for
\* every day of the range, and every block has executed on every one of its
\* firing days, whatever failed
C10_FailureIsolation ==
    /\ EndOfDay =>
          \A j \in FailuresToday :
             \A b \in (log[j].block + 1)..NumBlocks :
                /\ \E i \in (j + 1)..Len(log) : log[i].block = b
                /\ Cardinality(EventsToday("execution", b)) =
                      (IF shouldBlockExecute(currentDate,
                                             input.blocks[b].state, hostOffset)
                       THEN 1 ELSE 0)
    /\ pc = "done" =>
          /\ currentDate > endDate
          /\ Len(snapshots) = NumberOfDays
          /\ \A b \in 1..NumBlocks :
                execRuns[b] =
                   Cardinality({d \in SimulatedDays :
                      shouldBlockExecute(d, input.blocks[b].state, hostOffset)})

C10_Witness ==
    /\ RunsPlan(PlanFailures)
    /\ pc = "done"
    /\ thrown >= 4
    /\ execRuns[1] >= 2
    /\ execRuns[2] >= 2
    /\ execRuns[3] >= 3
    /\ Len(snapshots) = NumberOfDays
    /\ {"k", "c", "r"} \subseteq Keys(globalContext)

\* the outcome of the first n statements of a program on a context
FirstLines(code, n, ctx) ==
    RunStatements(SubSeq(Statements(code), 1, n), 1,
                  [threw |-> FALSE, context |-> ctx])

\* the statements of a program on a context that fail, by position
FailingLines(code, ctx) ==
    {n \in 1..Len(Statements(code)) : FirstLines(code, n, ctx).threw}

\* the bindings of the lines before the first failing line, or of all lines
BindingsBeforeFailure(code, ctx) ==
    IF FailingLines(code, ctx) = {}
    THEN FirstLines(code, Len(Statements(code)), ctx).context
    ELSE FirstLines(code,
                    (CHOOSE k \in FailingLines(code, ctx) :
                        \A n \in FailingLines(code, ctx) : k <= n) - 1,
                    ctx).context

\* the step of the global init program: a failure is caught and counted,
\* globalContext holds the bindings of the lines before the failing one and
\* the day loop starts at birthDate
GlobalInitStep ==
    pc = "globalInit" =>
       /\ heap'[GlobalRef] = BindingsBeforeFailure(input.globalInit,
                                                   EmptyContext)
       /\ thrown' = (IF FailingLines(input.globalInit, EmptyContext) # {}
                     THEN 1 ELSE 0)
       /\ pc' = "loop"
       /\ currentDate' = input.birthDate
       /\ RunsPlan(PlanFailures) =>
             /\ thrown' = 1
             /\ heap'[GlobalRef] = [n \in {"k"} |-> FromInt(1)]

\* C11: when the global init program fails at line k, the failure is caught,
\* globalContext holds exactly the bindings of the lines 1..k-1, and the day
\* loop runs from birthDate over the whole range; "k=1 / q=nope / z=2"
\* leaves {k: 1}
C11_GlobalInitPartial ==
    /\ [][GlobalInitStep]_vars
    /\ [](pc = "done" => Len(snapshots) = NumberOfDays /\ currentDate > endDate)

C11_Witness ==
    /\ RunsPlan(PlanFailures)
    /\ pc = "done"
    /\ FailingLines(input.globalInit, EmptyContext) = {2, 3}
    /\ SnapshotContext(1) = [n \in {"k"} |-> FromInt(1)]
    /\ Len(snapshots) = NumberOfDays
    /\ {"q", "z"} \cap Keys(globalContext) = {}

\* a call of executeCode has returned or thrown
Executed == call.op = "executeCode" /\ outcome.done

\* the first failing line of the program of the call
FirstFailing ==
    CHOOSE k \in FailingLines(call.code, call.context) :
       \A n \in FailingLines(call.code, call.context) : k <= n

\* the left-hand name and the right-hand text of the k-th statement
LeftOf(code, k) == Join(MapTrim(Split(Statements(code)[k], "="))[1])

RightOf(code, k) == MapTrim(Split(Statements(code)[k], "="))[2]

\* the context is the same, for name, as the context before it
SameBinding(name, before, after) ==
    IF name \in Keys(before)
    THEN name \in Keys(after) /\ after[name] = before[name]
    ELSE name \notin Keys(after)

\* C12: executeCode raises to its caller exactly when the evaluation of a
\* line fails; then the context holds the bindings of the lines before that
\* line, the left-hand name of that line is as it was before the line, and
\* no later line was executed; "a = 2 / b = nope + 1 / c = 2" on
\* {a: 1, b: 5, z: 0} raises and leaves {a: 2, b: 5, z: 0}
C12_StrictStatements ==
    Executed =>
       /\ outcome.threw <=> FailingLines(call.code, call.context) # {}
       /\ outcome.threw =>
             /\ outcome.context =
                   FirstLines(call.code, FirstFailing - 1, call.context).context
             /\ SameBinding(LeftOf(call.code, FirstFailing),
                   FirstLines(call.code, FirstFailing - 1,
                              call.context).context,
                   outcome.context)
             /\ evaluateExpression(RightOf(call.code, FirstFailing),
                                   outcome.context, TRUE).threw
       /\ call.code = ProgramUnbound =>
             /\ outcome.threw
             /\ outcome.context = Put(call.context, "a", FromInt(2))
             /\ "c" \notin Keys(outcome.context)

C12_Witness ==
    /\ Executed
    /\ call.code = ProgramUnbound
    /\ call.context = ContextAB
    /\ outcome.threw
    /\ FirstFailing = 2
    /\ outcome.context["a"] = FromInt(2)
    /\ outcome.context["b"] = FromInt(5)
    /\ Keys(outcome.context) = {"a", "b", "z"}

\* the text fails a check of the sanitizer: a banned character, or a period
\* that no digit follows
Unsanitary(expr) == HasBannedChar(expr) \/ HasBadPeriod(expr)

\* the statements of a program that have a right-hand side failing the
\* sanitizer, by position
UnsanitaryLines(code) ==
    {k \in 1..Len(Statements(code)) :
        /\ Len(Split(Statements(code)[k], "=")) >= 2
        /\ Unsanitary(RightOf(code, k))}

\* C13: in a run of executeCode, a line whose right-hand side has a banned
\* character or a period not followed by a digit, reached without an earlier
\* failure, makes executeCode raise, leaves its left-hand name as it was and
\* aborts the program
C13_SanitizationRaised ==
    Executed =>
       \A k \in UnsanitaryLines(call.code) :
          (\A n \in FailingLines(call.code, call.context) : n >= k) =>
             /\ outcome.threw
             /\ outcome.context =
                   FirstLines(call.code, k - 1, call.context).context
             /\ SameBinding(LeftOf(call.code, k), call.context,
                            outcome.context)

\* what the code does with the bracket program: x is bound to 0 and the
\* next line runs
C13_BoundToZero ==
    (Executed /\ call.code = ProgramBracket) =>
       /\ ~outcome.threw
       /\ outcome.context =
             Put(Put(call.context, "x", 0), "y", FromInt(1))

\* the statements of a program that contain no "=", by position
NoEqualsLines(code) ==
    {k \in 1..Len(Statements(code)) :
        Len(Split(Statements(code)[k], "=")) = 1}

\* C14: in a run of executeCode, a line without "=" that is neither blank
\* nor a comment, reached without an earlier failure, makes executeCode
\* raise: the context keeps the bindings of the lines before it, gets no
\* binding from it, and no later line runs
C14_NoEqualsAborts ==
    Executed =>
       \A k \in NoEqualsLines(call.code) :
          (\A n \in FailingLines(call.code, call.context) : n >= k) =>
             /\ outcome.threw
             /\ outcome.context =
                   FirstLines(call.code, k - 1, call.context).context

\* what the code does with "x = 1 / foo / y = 2": the line is bound as a name
\* with the value 0 and the next line runs
C14_LineBoundToZero ==
    (Executed /\ call.code = ProgramNoEquals) =>
       /\ ~outcome.threw
       /\ outcome.context =
             Put(Put(Put(call.context, "x", FromInt(1)), "foo", 0),
                 "y", FromInt(2))

\* a call of evaluateExpression has returned or thrown
Evaluated == call.op = "evaluateExpression" /\ outcome.done

\* the text is an expression of the arithmetic grammar over numbers, the
\* names of the context, parentheses and + - * /, with a finite value
Arithmetic(expr, ctx) ==
    /\ ~Unsanitary(expr)
    /\ \A p \in 1..Len(expr) : expr[p] \notin HostFunctions
    /\ Evaluate(RemoveSpace(expr), ctx).ok
    /\ IsFinite(Evaluate(RemoveSpace(expr), ctx).v)

\* the text is one decimal literal, white space around it apart
IsLiteral(expr) == Len(Trim(expr)) = 1 /\ IsNumeric(Trim(expr)[1])

\* C15: evaluateExpression returns the arithmetic value of a well-formed
\* expression, also of one that begins with a numeric literal ("2 + 2" gives
\* 4); the literal is returned as it stands only when the whole text is a
\* literal
C15_ArithmeticValue ==
    (Evaluated /\ Arithmetic(call.expr, call.context)) =>
       /\ ~outcome.threw
       /\ outcome.value = Evaluate(RemoveSpace(call.expr), call.context).v
       /\ call.expr = <<"2", " ", "+", " ", "2">> => outcome.value = FromInt(4)
       /\ IsLiteral(call.expr) => outcome.value = NumericLiteral[Trim(call.expr)[1]]

\* what the code does with a text that begins with a numeric literal: the
\* literal is the result, "2 + 2" gives 2
C15_LeadingLiteralReturned ==
    (Evaluated /\ parseFloat(call.expr) # NaN) =>
       /\ ~outcome.threw
       /\ outcome.value = parseFloat(call.expr)
       /\ call.expr = <<"2", " ", "+", " ", "2">> => outcome.value = FromInt(2)

\* evaluateExpression does return the arithmetic value of the well-formed
\* expressions that do not begin with a numeric literal
C15_ValueWithoutLeadingLiteral ==
    (Evaluated /\ Arithmetic(call.expr, call.context)
       /\ parseFloat(call.expr) = NaN) =>
       /\ ~outcome.threw
       /\ outcome.value = Evaluate(RemoveSpace(call.expr), call.context).v

\* C16: a text with a banned character anywhere in it, also after a leading
\* numeric literal, is rejected in every context: evaluateExpression
\* computes no value for it, the result is 0 and lenient mode does not throw
C16_BannedRejected ==
    (Evaluated /\ HasBannedChar(call.expr)) =>
       /\ outcome.value = 0
       /\ ~call.raise_errors => ~outcome.threw

\* the texts with a banned character that do not begin with a numeric
\* literal are rejected, in both modes
C16_RejectedWithoutLeadingLiteral ==
    (Evaluated /\ HasBannedChar(call.expr) /\ parseFloat(call.expr) = NaN) =>
       /\ outcome.value = 0
       /\ ~outcome.threw

\* what the code does with "2 + x[0]": the leading literal is the result
C16_LiteralBeforeBracket ==
    (Evaluated /\ call.expr = <<"2", " ", "+", " ", "x", "[", "0", "]">>) =>
       /\ HasBannedChar(call.expr)
       /\ ~outcome.threw
       /\ outcome.value = FromInt(2)

\* the text calls a function of the host: a host name followed by "("
ContainsCall(expr) ==
    \E p \in 1..(Len(expr) - 1) :
        expr[p] \in HostFunctions /\ expr[p + 1] = "("

\* C17: evaluateExpression computes values for the arithmetic grammar only:
\* a text that contains a function call is never evaluated to its value in
\* the host language, it is rejected (0, or an exception in strict mode)
C17_GrammarOnly ==
    (Evaluated /\ ContainsCall(call.expr)) =>
        outcome.threw \/ outcome.value = 0

\* what the code does with "Number(a)": no character of the call is banned
\* and the host evaluates it, the result is the value bound to a
C17_CallEvaluated ==
    (/\ Evaluated
     /\ call.expr = <<"Number", "(", "a", ")">>
     /\ "a" \in DOMAIN call.context) =>
       /\ ~HasBannedChar(call.expr)
       /\ ~outcome.threw
       /\ outcome.value = call.context["a"]

\* C18: a computation that yields a non-finite value returns 0 in lenient
\* mode and signals the caller in strict mode, so evaluateExpression never
\* returns a non-finite value and executeCode never binds one
C18_NonFiniteSuppressed ==
    /\ (Evaluated /\ ~outcome.threw) => IsFinite(outcome.value)
    /\ Executed =>
          \A n \in DOMAIN outcome.context : IsFinite(outcome.context[n])

\* what the code does: only not-a-number is falsy, so "z/z" becomes 0, in
\* strict mode too and without signalling; an infinity passes "|| 0" and is
\* returned and bound
C18_OnlyNaNBecomesZero ==
    /\ (Evaluated /\ call.expr = <<"z", "/", "z">>
                  /\ call.context = ContextAB) =>
          ~outcome.threw /\ outcome.value = 0
    /\ (Evaluated /\ call.expr = <<"a", " ", "/", " ", "z">>
                  /\ call.context = ContextAB) =>
          ~outcome.threw /\ outcome.value = Infinity
    /\ (Executed /\ call.code = ProgramDivision
                 /\ call.context = ContextAB) =>
          ~outcome.threw /\ outcome.context["q"] = Infinity

\* the lines of a program that are blank or start with "#", by position
IneffectiveLines(code) ==
    {i \in 1..Len(Split(code, "\n")) :
        \/ Trim(Split(code, "\n")[i]) = <<>>
        \/ Head(Trim(Split(code, "\n")[i])) = "#"}

RECURSIVE JoinLines(_)
JoinLines(lines) ==
    IF lines = <<>> THEN <<>>
    ELSE IF Len(lines) = 1 THEN Head(lines)
    ELSE Head(lines) \o <<"\n">> \o JoinLines(Tail(lines))

\* the program without its i-th line
WithoutLine(code, i) ==
    JoinLines(SubSeq(Split(code, "\n"), 1, i - 1)
                 \o SubSeq(Split(code, "\n"), i + 1,
                           Len(Split(code, "\n"))))

\* the k-th statement binds its left-hand name to the value of its
\* right-hand side in the context that the statements before it produced
BindsInCurrentContext(code, k, ctx) ==
    FirstLines(code, k, ctx).context =
       Put(FirstLines(code, k - 1, ctx).context, LeftOf(code, k),
           evaluateExpression(RightOf(code, k),
                              FirstLines(code, k - 1, ctx).context,
                              TRUE).value)

\* C19: a program runs line by line against the mutating context: line k is
\* evaluated with the bindings of the lines 1..k-1 of the same call, then its
\* left-hand name is bound or overwritten; a blank line and a line that
\* starts with "#" have no effect; "x = 5 / y = x * 2" on the empty context
\* leaves {x: 5, y: 10}
C19_LineByLine ==
    Executed =>
       /\ (~outcome.threw /\ NoEqualsLines(call.code) = {}) =>
             /\ outcome.context =
                   FirstLines(call.code, Len(Statements(call.code)),
                              call.context).context
             /\ \A k \in 1..Len(Statements(call.code)) :
                   BindsInCurrentContext(call.code, k, call.context)
       /\ \A i \in IneffectiveLines(call.code) :
             /\ executeCode(WithoutLine(call.code, i), call.context).threw
                   = outcome.threw
             /\ executeCode(WithoutLine(call.code, i), call.context).context
                   = outcome.context
       /\ (call.code \in {ProgramDouble, ProgramCommented}
             /\ call.context \in {EmptyContext, ContextX}) =>
             /\ ~outcome.threw
             /\ outcome.context =
                   [n \in {"x", "y"} |->
                       IF n = "x" THEN FromInt(5) ELSE FromInt(10)]

C19_Witness ==
    /\ Executed
    /\ call.code = ProgramCommented
    /\ call.context = ContextX
    /\ Cardinality(IneffectiveLines(call.code)) = 4
    /\ Len(Statements(call.code)) = 2
    /\ ~outcome.threw
    /\ outcome.context["x"] = FromInt(5)
    /\ outcome.context["y"] = FromInt(10)

\* a call of shouldBlockExecute has returned
Scheduled == call.op = "shouldBlockExecute" /\ outcome.done

\* C20: shouldBlockExecute(date, blockState) is the reference predicate of
\* the calendar day of date, for every day and frequency: false outside
\* startDate..endDate; inside, true for daily, true for monthly iff the day
\* of the month is that of startDate, true for yearly iff day and month are
\* those of startDate
C20_ReferencePredicate ==
    Scheduled => (outcome.value <=> FiresOn(call.day, call.blockState))

\* on a host on UTC the result is the reference predicate: 2025-01-15
\* monthly fires on 2025-02-15 and not on 2025-02-16, and a block that
\* starts on the 31st does not fire in a month of 30 days
C20_ReferenceOnUTC ==
    (Scheduled /\ hostOffset = 0) =>
       /\ outcome.value <=> FiresOn(call.day, call.blockState)
       /\ (call.blockState.startDate = Day(2025, 1, 15)
             /\ call.day = Day(2025, 2, 15)) => outcome.value
       /\ (call.blockState.startDate = Day(2025, 1, 15)
             /\ call.day = Day(2025, 2, 16)) => ~outcome.value
       /\ (call.blockState.startDate = Day(2025, 1, 31)
             /\ call.day.m \in {2, 4, 6}) => ~outcome.value

\* west of UTC the written day of the example does not fire, the day
\* before it does; east of UTC the block does not fire on its startDate
C20_ShiftedOffUTC ==
    (Scheduled /\ call.blockState.startDate = Day(2025, 1, 15)) =>
       /\ (hostOffset < 0 /\ call.day = Day(2025, 2, 15)) => ~outcome.value
       /\ (hostOffset < 0 /\ call.day = Day(2025, 2, 14)) => outcome.value
       /\ (hostOffset > 0 /\ call.day = Day(2025, 1, 15)) => ~outcome.value

\* block b was processed on the current day, and its execution program ran
ProcessedToday(b) == EventsToday("skip", b) = {}

ExecutedToday(b) == EventsToday("execution", b) # {}

\* C21: a block is active on exactly the calendar days d with
\* startDate <= d <= endDate, both included: a daily block runs its execution
\* program on startDate and on endDate and on every day between them, and on
\* no day before startDate or after endDate
C21_ActiveRange ==
    EndOfDay =>
       \A b \in 1..NumBlocks :
          /\ ProcessedToday(b) <=> InCalendarRange(Today, input.blocks[b].state)
          /\ input.blocks[b].state.frequency = "daily" =>
                (ExecutedToday(b) <=>
                    InCalendarRange(Today, input.blocks[b].state))

\* on a host on UTC the active days are startDate..endDate, both included
C21_ActiveRangeOnUTC == hostOffset = 0 => C21_ActiveRange

\* off UTC one endpoint is lost: east of UTC a daily block does not run on
\* its startDate, west of UTC it does not run on its endDate
C21_EndpointLostOffUTC ==
    (EndOfDay /\ RunsPlan(PlanOrder)) =>
       /\ (hostOffset > 0 /\ Today = Day(2025, 3, 1)) => ~ExecutedToday(1)
       /\ (hostOffset > 0 /\ Today = Day(2025, 3, 4)) => ExecutedToday(1)
       /\ (hostOffset < 0 /\ Today = Day(2025, 3, 4)) => ~ExecutedToday(1)
       /\ (hostOffset < 0 /\ Today = Day(2025, 3, 1)) => ExecutedToday(1)

\* the block loop is within a day: the log is that of currentDate
WithinDay == pc \in {"block", "fire"}

\* the events of the current day that are runs of an execution program
ExecutionsToday == {j \in 1..Len(log) : log[j].op = "execution"}

\* the calendar difference between day and startDate in the unit of the
\* frequency: whole days, yearsDiff * 12 + monthsDiff, or yearsDiff
CalendarPeriods(startDate, day, frequency) ==
    IF frequency = "daily" THEN DayNumber(day) - DayNumber(startDate)
    ELSE IF frequency = "monthly"
         THEN (day.y - startDate.y) * 12 + (day.m - startDate.m)
    ELSE day.y - startDate.y

\* the execContext of the j-th event holds the calendar difference
ReadsCalendarPeriods(j) ==
    log[j].read["periods_from_start"] =
       FromInt(CalendarPeriods(input.blocks[log[j].block].state.startDate,
                               Today,
                               input.blocks[log[j].block].state.frequency))

\* C22: at the start of every execution of a block, periods_from_start in
\* the execContext is the calendar difference between the current day and
\* the block's startDate in the block's unit, whatever the number of earlier
\* firings, the value a program assigned to periods_from_start, or a global
\* of that name
C22_PeriodsFromCalendar ==
    WithinDay => \A j \in ExecutionsToday : ReadsCalendarPeriods(j)

\* on a host on UTC the value is the calendar difference
C22_PeriodsOnUTC == hostOffset = 0 => C22_PeriodsFromCalendar

\* on every host the value is computed anew from the two dates at each
\* execution: a value assigned by a program or held by globalContext under
\* that name is not read; east of UTC the elapsed days of a daily block are
\* one less than the calendar difference
C22_ComputedAnew ==
    WithinDay =>
       \A j \in ExecutionsToday :
          /\ log[j].read["periods_from_start"] =
                FromInt(calculatePeriodsFromStart(
                   ParseDateString(input.blocks[log[j].block].state.startDate),
                   currentDate, input.blocks[log[j].block].state.frequency,
                   hostOffset))
          /\ (hostOffset > 0
                /\ input.blocks[log[j].block].state.frequency = "daily") =>
                log[j].read["periods_from_start"] =
                   FromInt(CalendarPeriods(
                      input.blocks[log[j].block].state.startDate, Today,
                      "daily") - 1)

\* the events of the current day that are init phases
InitsToday == {j \in 1..Len(log) : log[j].op = "init"}

\* the number of periods of startDate..endDate, both included, in the unit
\* of the frequency
InclusivePeriods(blockState) ==
    CalendarPeriods(blockState.startDate, blockState.endDate,
                    blockState.frequency) + 1

\* C23: total_periods counts the block's range inclusively in the block's
\* unit, for every frequency: a block whose startDate is its endDate has
\* total_periods = 1, daily, monthly or yearly, and a daily block over the
\* days d0..d0+n has total_periods = n + 1
C23_TotalPeriodsInclusive ==
    WithinDay =>
       \A j \in InitsToday :
          log[j].read["total_periods"] =
             FromInt(InclusivePeriods(input.blocks[log[j].block].state))

\* what the code computes: the monthly and the yearly count are inclusive,
\* the daily count is the difference of the two days, one short; a daily
\* block of one day has total_periods = 0
C23_DailyOneShort ==
    WithinDay =>
       \A j \in InitsToday :
          /\ log[j].read["total_periods"] =
                FromInt(InclusivePeriods(input.blocks[log[j].block].state)
                        - (IF input.blocks[log[j].block].state.frequency
                                 = "daily" THEN 1 ELSE 0))
          /\ (RunsPlan(PlanPeriods) /\ log[j].block = 2) =>
                log[j].read["total_periods"] = 0
          /\ (RunsPlan(PlanPeriods) /\ log[j].block \in {3, 4}) =>
                log[j].read["total_periods"] = FromInt(1)

\* the two default inputs as the code's functions compute them for block b
\* on the current day
ComputedTotalPeriods(b) ==
    FromInt(calculateTotalPeriods(
               ParseDateString(input.blocks[b].state.startDate),
               ParseDateString(input.blocks[b].state.endDate),
               input.blocks[b].state.frequency, hostOffset))

ComputedPeriodsFromStart(b) ==
    FromInt(calculatePeriodsFromStart(
               ParseDateString(input.blocks[b].state.startDate), currentDate,
               input.blocks[b].state.frequency, hostOffset))

\* C24: the default inputs always win and are never persisted: at the start
\* of every execution of a block, total_periods in the execContext is the
\* computed total of the block and periods_from_start is the computed
\* elapsed count of the day, also after a program of the block or an export
\* of another block assigned another value to one of the two names
C24_DefaultsWin ==
    WithinDay =>
       \A j \in ExecutionsToday :
          /\ log[j].read["total_periods"] = ComputedTotalPeriods(log[j].block)
          /\ log[j].read["periods_from_start"] =
                ComputedPeriodsFromStart(log[j].block)

\* what the code does: periods_from_start is computed at each execution;
\* total_periods is read back from the persisted block context, so it is the
\* value the block's last program left under that name, and a global of that
\* name exported by another block is not read
C24_TotalPeriodsPersisted ==
    [][execRuns' # execRuns =>
          /\ log'[Len(log')].read["total_periods"] =
                PersistedTotalPeriods(blockContexts[block.id])
          /\ log'[Len(log')].read["periods_from_start"] =
                ComputedPeriodsFromStart(blockIndex)
          /\ (RunsPlan(PlanPeriods) /\ blockIndex = 1) =>
                log'[Len(log')].read["total_periods"] =
                   FromInt(99 + execRuns[1])]_vars

\* the tampering block has executed twice and the one-day blocks once
C24_TamperedTwice ==
    /\ RunsPlan(PlanPeriods)
    /\ execRuns = <<2, 0, 0, 0>>
    /\ blockContexts["tamper"]["total_periods"] = FromInt(101)
    /\ globalContext["total_periods"] = FromInt(101)

\* the names a block's persisted context and globalContext both hold, the
\* two default inputs apart
SharedNames(id) ==
    (Keys(blockContexts[id]) \cap Keys(globalContext)) \ Defaults

\* C25: when a block fires, for every name that its persisted block-local
\* context and globalContext both hold (other than the two default inputs),
\* the execution program reads the current value of globalContext, not the
\* block's copy; a block-private variable is replaced by the global value as
\* soon as another block has exported a variable of that name
C25_GlobalWins ==
    [][execRuns' # execRuns =>
          /\ \A n \in SharedNames(block.id) :
                log'[Len(log')].read[n] = globalContext[n]
          /\ (RunsPlan(PlanPrivacy) /\ blockIndex = 1) =>
                /\ blockContexts["owner"]["v"] = FromInt(1)
                      \/ execRuns[1] > 0
                /\ log'[Len(log')].read["v"] =
                      (IF initRuns[2] = 1 THEN FromInt(50) ELSE FromInt(1))
                /\ blockContexts'["owner"]["v"] = log'[Len(log')].read["v"]]_vars

\* the block read its own v = 1 at its first firing and reads the v = 50
\* that the other block exported since
C25_Witness ==
    /\ RunsPlan(PlanPrivacy)
    /\ WithinDay
    /\ \E j \in ExecutionsToday :
          /\ log[j].block = 1
          /\ log[j].read["v"] = FromInt(50)
          /\ log[j].read["h"] >= FromInt(1)
          /\ log[j].read["h"] < FromInt(50)
    /\ globalContext["v"] = FromInt(50)
    /\ "v" \notin ExplicitExports(input.blocks[1].state.exports)

\* the names of a block's persisted context that are neither names of
\* globalContext nor default inputs
HelperNames(id) ==
    Keys(blockContexts[id]) \ (Keys(globalContext) \cup Defaults)

\* the execution that a step has just run read the persisted value of n
ReadsPersisted(n) ==
    /\ n \in Keys(log'[Len(log')].read)
    /\ log'[Len(log')].read[n] = blockContexts[block.id][n]

\* C26: after a block fires, its whole execContext is its block-local
\* context: every name the execution read is persisted, and a helper
\* variable that is neither exported nor a global name has, at the block's
\* next firing, the value it had at the end of the previous firing or of the
\* init; no step of another block changes a block's context
C26_HelpersPersist ==
    [][/\ execRuns' # execRuns =>
             /\ \A n \in HelperNames(block.id) : ReadsPersisted(n)
             /\ Keys(log'[Len(log')].read) \subseteq
                   Keys(blockContexts'[block.id])
             /\ (RunsPlan(PlanPrivacy) /\ blockIndex = 1) =>
                   /\ log'[Len(log')].read["h"] = blockContexts["owner"]["h"]
                   /\ blockContexts'["owner"]["h"] =
                         Add(blockContexts["owner"]["h"],
                             log'[Len(log')].read["v"])
       /\ \A id \in DOMAIN blockContexts :
             blockContexts'[id] # blockContexts[id] =>
                id = block.id /\ execRuns' # execRuns]_vars

\* the owner fires again after the other block has set up an h of its own
C26_Witness ==
    /\ RunsPlan(PlanPrivacy)
    /\ WithinDay
    /\ initRuns[2] = 1
    /\ blockContexts["other"]["h"] = FromInt(9)
    /\ \E j \in ExecutionsToday :
          /\ log[j].block = 1
          /\ log[j].read["h"] \in {FromInt(1), FromInt(2)}
          /\ blockContexts["owner"]["h"] = log[j].read["h"] + FromInt(50)
    /\ "h" \notin Keys(globalContext)

\* the names a program assigns: the left-hand sides of its statements
AssignedNames(code) ==
    {LeftOf(code, k) : k \in 1..Len(Statements(code))}

\* the names block b can hold of its own: the default inputs, its declared
\* inputs and the names its two programs assign
OwnNames(b) ==
    Defaults \cup DOMAIN input.blocks[b].state.inputs
             \cup AssignedNames(input.blocks[b].state.init)
             \cup AssignedNames(input.blocks[b].state.execution)

\* the names block b holds that it does not declare as exports and that
\* globalContext does not hold
PrivateNames(b) ==
    Keys(blockContexts[input.blocks[b].id])
       \ (ExplicitExports(input.blocks[b].state.exports)
             \cup Keys(globalContext))

\* a step of the block loop adds to globalContext only names that the block
\* at hand declares as exports and holds
LiftsDeclaredOnly ==
    pc # "globalInit" =>
       \A n \in Keys(heap'[GlobalRef]) \ Keys(globalContext) :
          /\ n \in ExplicitExports(block.state.exports)
          /\ n \in Keys(blockContexts'[block.id])

\* every name of a block's context is a name of globalContext or one of the
\* block's own; no private name is in the latest snapshot
NoForeignNames ==
    /\ \A b \in 1..NumBlocks :
          IsInitialized(blockContexts, input.blocks[b].id) =>
             /\ Keys(blockContexts[input.blocks[b].id]) \subseteq
                   Keys(globalContext) \cup OwnNames(b)
             /\ snapshots # <<>> => PrivateNames(b) \cap Keys(LastSnapshot) = {}
    /\ WithinDay =>
          \A j \in ExecutionsToday :
             Keys(log[j].read) \subseteq
                Keys(globalContext) \cup OwnNames(log[j].block)
    /\ (RunsPlan(PlanPrivacy) \/ RunsPlan(PlanLate)) =>
          {"secret", "h", "bonus"} \cap Keys(globalContext) = {}
    /\ (RunsPlan(PlanPrivacy) /\ IsInitialized(blockContexts, "other")) =>
          "secret" \notin Keys(blockContexts["other"])
    /\ ~RunsPlan(PlanPeriods) => Defaults \cap Keys(globalContext) = {}

\* C27: a variable that a block holds (a declared input and the two default
\* inputs included) and that is neither a declared export of the block nor a
\* name of globalContext at export time never becomes a name of
\* globalContext or of a snapshot, and reaches no other block's execContext
C27_BlockLocalPrivacy ==
    /\ [][LiftsDeclaredOnly]_vars
    /\ []NoForeignNames

C27_Witness ==
    /\ RunsPlan(PlanPrivacy)
    /\ pc = "done"
    /\ blockContexts["owner"]["secret"] = FromInt(3)
    /\ blockContexts["owner"]["h"] > FromInt(100)
    /\ PrivateNames(1) = {"secret", "h"} \cup Defaults
    /\ PrivateNames(2) = {"h"} \cup Defaults
    /\ Keys(globalContext) = {"g", "v", "u"}

\* no block was initialised and none fired on the day of the log
QuietDay == \A j \in 1..Len(log) : log[j].op \in {"skip", "nofire"}

\* a step after the global init program that changes globalContext or a
\* block-local context is the init phase or the execution phase of a block
OnlyExportsWrite ==
    (/\ pc # "globalInit"
     /\ \/ heap'[GlobalRef] # globalContext
        \/ blockContexts' # blockContexts) =>
       initRuns' # initRuns \/ execRuns' # execRuns

\* the snapshot of a quiet day holds the context of the snapshot before it
QuietDaySnapshot ==
    (Len(snapshots') > Len(snapshots) /\ snapshots # <<>> /\ QuietDay) =>
       heap'[snapshots'[Len(snapshots')].context] = LastSnapshot

\* C28: after the global init program, globalContext changes only through a
\* block's export resolution: processing a block that is inactive, or active,
\* initialised and not firing that day, leaves globalContext and every
\* block-local context unchanged, and the snapshot of a day on which no
\* block is initialised or fires equals that of the day before
C28_OnlyExportsWrite ==
    [][OnlyExportsWrite /\ QuietDaySnapshot]_vars

C28_Witness ==
    /\ RunsPlan(PlanPrivacy)
    /\ pc = "loop"
    /\ Len(log) = 2
    /\ log[1].op = "nofire"
    /\ log[2].op = "skip"
    /\ Len(snapshots) >= 2
    /\ "u" \in Keys(LastSnapshot)
    /\ LastSnapshot = SnapshotContext(Len(snapshots) - 1)
    /\ LastSnapshot # SnapshotContext(1)

\* the earlier runs that were made with the input of the current run
SameInputRuns == {i \in 1..Len(returned) : returned[i].input = input}

\* C29: two runs of the driver on identical plan documents (the same global
\* init program, blocks, birthDate and endAge) return snapshot sequences
\* that are equal element for element, in dates and in contexts
C29_Deterministic ==
    pc = "done" =>
       \A i \in SameInputRuns : returned[i].snapshots = Result

\* two runs on identical inputs on hosts of the same zone return equal
\* snapshot sequences
C29_DeterministicOnHost ==
    pc = "done" =>
       \A i \in SameInputRuns :
          returned[i].host = hostOffset => returned[i].snapshots = Result

\* the same input on a host on UTC and on a host west of it: the block that
\* starts on the 31st executes three times on the one and four times on the
\* other, and the returned contexts differ
C29_HostDependent ==
    (/\ pc = "done"
     /\ RunsPlan(PlanTwin)
     /\ Len(returned) = 1
     /\ returned[1].host = 0) =>
       /\ hostOffset = 0 - 5
       /\ returned[1].input = input
       /\ execRuns[1] = 4
       /\ returned[1].snapshots[Len(snapshots)].context["k"] = FromInt(3)
       /\ Result[Len(snapshots)].context["k"] = FromInt(4)
       /\ \A k \in 1..Len(snapshots) :
             Result[k].date = returned[1].snapshots[k].date

\* a run starts with an empty globalContext, an empty Map of block-local
\* contexts and no snapshots, whatever the runs before it left
RunStartsFresh ==
    pc = "globalInit" =>
       /\ globalContext = EmptyContext
       /\ DOMAIN blockContexts = {}
       /\ snapshots = <<>>
       /\ DOMAIN heap = {GlobalRef}

\* the results that earlier runs returned are not changed by a later run
ReturnedIsStable ==
    \A i \in 1..Len(returned) :
       Len(returned') >= i /\ returned'[i] = returned[i]

\* the run of a plan after the run of another plan returns what the run of
\* the plan returned when it ran first
SameAfterOtherRun ==
    (pc = "done" /\ Len(returned) = 2) =>
       /\ returned[1].input = input
       /\ returned[1].snapshots = Result

\* C30: two runs for different plans do not interfere: a run starts from a
\* globalContext and block-local contexts of its own, it does not change what
\* an earlier run returned, and the snapshots of a run are the same whether
\* it runs first or after the run of another plan, also when the two plans
\* use the same block ids and variable names
C30_NoInterference ==
    /\ []RunStartsFresh
    /\ [][ReturnedIsStable]_vars
    /\ []SameAfterOtherRun

\* PlanTwin has run, then PlanOverwrite with the same block id and variable
\* names, then PlanTwin again
C30_Witness ==
    /\ pc = "done"
    /\ Len(returned) = 2
    /\ RunsPlan(PlanTwin)
    /\ returned[2].input.blocks = PlanOverwrite.blocks
    /\ returned[2].input.blocks[1].id = input.blocks[1].id
    /\ returned[2].snapshots # returned[1].snapshots
    /\ returned[1].snapshots = Result
    /\ {"cash", "k"} \subseteq Keys(blockContexts["spend"])
    /\ "k" \in Keys(globalContext)
    /\ "k" \notin Keys(returned[2].snapshots[Len(snapshots)].context)

-----------------------------------------------------------------------------
(* C31: the declared inputs are seeded before the init program runs        *)

\* the input fields of the block of the j-th event of the day
InputsOf(j) == input.blocks[log[j].block].state.inputs

\* the text is a numeric literal, white space around it aside
IsNumberText(value) == Len(Trim(value)) = 1 /\ IsNumeric(Trim(value)[1])

\* the text is empty or starts, after white space, with something that
\* begins no number
IsNoNumberText(value) ==
    \/ Trim(value) = <<>>
    \/ ~IsNumeric(Trim(value)[1]) /\ Trim(value)[1] \notin {"-", "+", "."}

\* the sum the init program of the block "seeded" computes from its inputs:
\* 5 + 0.5 + 0 + 0 + 7 + 2 + 3
SeededSum == FromInt(17) + FromInt(1) \div 2

SeededToday(j) ==
    /\ RunsPlan(PlanInputs)
    /\ j \in InitsToday
    /\ input.blocks[log[j].block].id = "seeded"

\* C31: the context an init program starts from binds every declared input
\* of the block: a numeric text to its number, an empty or non-numeric text
\* to 0; the init program reads them (the block "seeded" adds its seven
\* inputs up without failing and exports the sum).
C31_InputsSeeded ==
    \A j \in InitsToday :
       /\ \A key \in DOMAIN InputsOf(j) :
             /\ key \in Keys(log[j].read)
             /\ IsNumberText(InputsOf(j)[key]) =>
                   log[j].read[key] = NumericLiteral[Trim(InputsOf(j)[key])[1]]
             /\ IsNoNumberText(InputsOf(j)[key]) => log[j].read[key] = 0
       /\ SeededToday(j) =>
             /\ ~log[j].threw
             /\ log[j].wrote["r"] = SeededSum

\* the block "seeded" has run its init program on a context that holds the
\* number 5 for "5", 0.5 for "0.5", 3 for " 3" and 0 for "nope" and ""
C31_Witness ==
    \E j \in InitsToday :
       /\ SeededToday(j)
       /\ log[j].read["bonus"] = FromInt(5)
       /\ log[j].read["rate"] = FromInt(1) \div 2
       /\ log[j].read["q"] = FromInt(3)
       /\ log[j].read["w"] = 0
       /\ log[j].read["z"] = 0
       /\ log[j].wrote["r"] = SeededSum


-----------------------------------------------------------------------------
(* C32: evaluateExpression is pure and, called leniently, total            *)

\* the text names something that is no key of the context
ReferencesAbsent(expr, ctx) ==
    \E p \in 1..Len(expr) :
        /\ IsIdentifier(expr[p]) \/ expr[p] \in HostFunctions
        /\ expr[p] \notin Keys(ctx)

Lenient == Evaluated /\ ~call.raise_errors

\* the call leaves its context as it was; a lenient call does not throw and
\* returns 0 for a blank text
PureAndNeverThrows ==
    /\ Evaluated => outcome.context = call.context
    /\ Lenient => ~outcome.threw
    /\ (Lenient /\ Trim(call.expr) = <<>>) => outcome.value = 0

\* a lenient call on a text without a leading number and without the name of
\* a host function returns 0 when the text fails the sanitizer or names
\* something absent from the context
ZeroWithoutPrefix ==
    (/\ Lenient
     /\ parseFloat(call.expr) = NaN
     /\ \A p \in 1..Len(call.expr) : call.expr[p] \notin HostFunctions
     /\ Unsanitary(call.expr) \/ ReferencesAbsent(call.expr, call.context))
    => outcome.value = 0

\* C32: evaluateExpression never adds, removes or changes a key of its
\* context; called without strict mode it never throws and returns 0 for an
\* empty expression, for a text that fails the sanitizer and for a text that
\* references an identifier absent from the context.
C32_PureAndTotal ==
    /\ PureAndNeverThrows
    /\ (Lenient /\ Unsanitary(call.expr)) => outcome.value = 0
    /\ (Lenient /\ ReferencesAbsent(call.expr, call.context)) =>
          outcome.value = 0

\* a lenient call returned a number other than 0 for a text with a banned
\* character, and for a text that names something absent from the context
C32_NonZero ==
    /\ Lenient
    /\ outcome.value # 0
    /\ Unsanitary(call.expr) \/ ReferencesAbsent(call.expr, call.context)

-----------------------------------------------------------------------------
(* C36: the bindings made before a failing line of an execution program    *)

\* the program that consists of the first n statements of code
Truncated(code, n) == JoinLines(SubSeq(Statements(code), 1, n))

\* the first failing line of a program on a context
FirstFailingLine(code, ctx) ==
    CHOOSE k \in FailingLines(code, ctx) :
       \A n \in FailingLines(code, ctx) : k <= n

\* globalContext after the export resolution of a block on the context ctx:
\* the declared exports and the names globalContext held before, as far as
\* ctx holds them, take the values of ctx
ResolvedGlobal(exports, ctx, global) ==
    [n \in Keys(global) \cup (ExplicitExports(exports) \cap Keys(ctx)) |->
        IF n \in Keys(ctx) THEN ctx[n] ELSE global[n]]

\* the step leaves globalContext and the block's context as a run of the
\* program alt on the context read would
AsIfProgram(alt, read) ==
    /\ ~executeCode(alt, read).threw
    /\ blockContexts'[block.id] = executeCode(alt, read).context
    /\ heap'[GlobalRef] =
          ResolvedGlobal(block.state.exports, executeCode(alt, read).context,
                         globalContext)

\* the event the step appends to the day's log
NewEvent == log'[Len(log')]

FailedExecutionStep ==
    /\ pc # "globalInit"
    /\ execRuns' # execRuns
    /\ NewEvent.threw

PartialEffectsKept ==
    FailedExecutionStep =>
       AsIfProgram(Truncated(block.state.execution,
                             FirstFailingLine(block.state.execution,
                                              NewEvent.read) - 1),
                   NewEvent.read)

\* C36: when a block's execution program fails at line k, globalContext and
\* the block's persisted context are left exactly as a run of the program
\* made of the lines 1..k-1 would leave them: the bindings of the lines before
\* k are exported (declared exports and names globalContext already held) and
\* persisted.
C36_PartialEffectsKept == [][PartialEffectsKept]_vars

\* the block "badexec" failed at its second line today: the r its first line
\* incremented is in globalContext and in the block's context, w is in
\* neither, and the third line (r = 0) has not run
C36_Witness ==
    /\ RunsPlan(PlanFailures)
    /\ \E j \in EventsToday("execution", 2) :
          /\ log[j].threw
          /\ log[j].wrote["r"] = Add(log[j].read["r"], FromInt(1))
          /\ "w" \notin Keys(log[j].wrote)
          /\ blockContexts["badexec"]["r"] = log[j].wrote["r"]
          /\ log[j].wrote["r"] # 0

-----------------------------------------------------------------------------
(* C37: export resolution at the end of the init phase                     *)

InitStep == pc # "globalInit" /\ initRuns' # initRuns

\* the init step leaves in the block's context what the init program makes
\* of the seeded context, and lifts from it every declared export and every
\* name globalContext held
InitExportsResolved ==
    InitStep =>
       /\ blockContexts'[block.id] =
             RunIfNotBlank(block.state.init, NewEvent.read).context
       /\ heap'[GlobalRef] =
             ResolvedGlobal(block.state.exports, blockContexts'[block.id],
                            globalContext)

\* the input cash = "7" of the block "seeded" replaces the global cash = 100
InputOverwritesGlobal ==
    (InitStep /\ RunsPlan(PlanInputs) /\ block.id = "seeded") =>
       /\ globalContext["cash"] = FromInt(100)
       /\ heap'[GlobalRef]["cash"] = FromInt(7)
       /\ heap'[GlobalRef]["r"] = SeededSum

\* C37: the init phase ends with an export resolution: on a block's first
\* active day, whether or not the block fires that day, every declared export
\* and every name globalContext already held that the init context holds is
\* copied into globalContext; a declared input named like a global variable
\* thereby overwrites that global with the input's value.
C37_InitExports == [][InitExportsResolved /\ InputOverwritesGlobal]_vars

\* the block "salary" was initialised on a day on which it did not fire and
\* its export pay is in globalContext
InitWithoutFiring ==
    /\ RunsPlan(PlanLate)
    /\ EventsToday("init", 1) # {}
    /\ EventsToday("nofire", 1) # {}
    /\ EventsToday("execution", 1) = {}
    /\ \A j \in EventsToday("init", 1) : "pay" \in Keys(log[j].wrote)
    /\ "pay" \in Keys(globalContext)

\* the init phase of the block "seeded" has just replaced the global cash by
\* the value of the input cash
InputOverGlobal ==
    /\ RunsPlan(PlanInputs)
    /\ pc = "fire"
    /\ \E j \in EventsToday("init", 1) :
          /\ log[j].wrote["cash"] = FromInt(7)
          /\ log[j].wrote["r"] = SeededSum
    /\ globalContext["cash"] = FromInt(7)

C37_Witness == InputOverGlobal

-----------------------------------------------------------------------------
(* C38: executions and total_periods                                       *)

\* the total_periods block b is given by its init phase
GivenTotalPeriods(b) ==
    calculateTotalPeriods(ParseDateString(input.blocks[b].state.startDate),
                          ParseDateString(input.blocks[b].state.endDate),
                          input.blocks[b].state.frequency, hostOffset)

\* the date range of block b lies inside the simulated range
InsideRun(b) ==
    /\ pc # "globalInit"
    /\ input.birthDate <= ParseDateString(input.blocks[b].state.startDate)
    /\ ParseDateString(input.blocks[b].state.endDate) <= endDate

\* block b has run its execution program at most total_periods times, and
\* each time with periods_from_start <= total_periods - 1
WithinTotalPeriods(b) ==
    /\ execRuns[b] <= GivenTotalPeriods(b)
    /\ \A j \in EventsToday("execution", b) :
          log[j].read["periods_from_start"] <=
             FromInt(GivenTotalPeriods(b) - 1)

\* the blocks that are not daily keep within their total_periods
NonDailyWithinTotal ==
    \A b \in 1..NumBlocks :
       (InsideRun(b) /\ input.blocks[b].state.frequency # "daily") =>
          WithinTotalPeriods(b)

\* C38: a block whose date range lies inside the simulated range runs its
\* execution program at most total_periods times over the run, whatever its
\* frequency, and periods_from_start is at most total_periods - 1 at every
\* firing.
C38_WithinTotalPeriods ==
    \A b \in 1..NumBlocks : InsideRun(b) => WithinTotalPeriods(b)

\* a daily block inside the simulated range has run once more than its
\* total_periods
C38_OneTooMany ==
    \E b \in 1..NumBlocks :
       /\ InsideRun(b)
       /\ input.blocks[b].state.frequency = "daily"
       /\ execRuns[b] = GivenTotalPeriods(b) + 1

-----------------------------------------------------------------------------
(* C39: no stored value is not-a-number                                    *)

\* the context holds no not-a-number value
NoNaNIn(ctx) == \A n \in Keys(ctx) : ctx[n] # NaN

\* globalContext and every snapshot context (the objects of the heap) and
\* every block-local context
StoredContexts ==
    {heap[r] : r \in DOMAIN heap}
       \cup {blockContexts[id] : id \in DOMAIN blockContexts}

\* the programs of the plan hold no line comment of the host language
PlanWithoutComment ==
    /\ ~HasLineComment(input.globalInit)
    /\ \A b \in 1..NumBlocks :
          /\ ~HasLineComment(input.blocks[b].state.init)
          /\ ~HasLineComment(input.blocks[b].state.execution)

\* no value is not-a-number in the runs of the plans without such a comment
NoNaNWithoutComment ==
    PlanWithoutComment => \A ctx \in StoredContexts : NoNaNIn(ctx)

\* C39: every value stored in globalContext, in a block-local context and in
\* a snapshot context is a number that is not not-a-number, after any
\* sequence of global init, block init and block execution programs.
C39_NoNaNStored == \A ctx \in StoredContexts : NoNaNIn(ctx)

\* the block "hole" has bound x to not-a-number, exported it, and a snapshot
\* holds it
C39_NaNInSnapshot ==
    /\ RunsPlan(PlanInputs)
    /\ "x" \in Keys(globalContext) /\ globalContext["x"] = NaN
    /\ blockContexts["hole"]["x"] = NaN
    /\ snapshots # <<>>
    /\ "x" \in Keys(LastSnapshot) /\ LastSnapshot["x"] = NaN

-----------------------------------------------------------------------------
(* The backend worker (worker/index.ts)                                    *)

\* JSON values: null and the plan documents {currentAge, blocks}
JsonNull == [kind |-> "null", currentAge |-> 0, blocks |-> 0]

PlanDocument(currentAge, blocks) ==
    [kind |-> "object", currentAge |-> currentAge, blocks |-> blocks]

\* what parsing a text that is no JSON document gives: an exception
NoJson == [kind |-> "invalid", currentAge |-> 0, blocks |-> 0]

\* JSON texts: a value in a layout (compact, with a space after each colon,
\* or indented by two), and texts that are no JSON document
JsonText(layout, value) == [layout |-> layout, value |-> value]

BrokenText == JsonText("broken", NoJson)

\* JSON.stringify(value)
JsonStringify(value) == JsonText("compact", value)

\* JSON.stringify(value, null, 2)
JsonStringifyIndented(value) == JsonText("indent2", value)

\* JSON.parse(text), request.json(), response.json(): NoJson stands for the
\* SyntaxError that is thrown
JsonParse(text) ==
    IF text.layout \in {"broken", "none"} THEN NoJson ELSE text.value

\* URL paths as sequences of "/" and segment names
Path(op, rest) == <<"/", "api", "/", op>> \o rest

\* s.startsWith(prefix)
StartsWith(s, prefix) ==
    Len(s) >= Len(prefix) /\ SubSeq(s, 1, Len(prefix)) = prefix

\* the positions at which pattern occurs in s
Occurrences(s, pattern) ==
    {p \in 1..(Len(s) - Len(pattern) + 1) :
        SubSeq(s, p, p + Len(pattern) - 1) = pattern}

\* s.replace(pattern, ""): s without the first occurrence of pattern
ReplaceFirst(s, pattern) ==
    IF Occurrences(s, pattern) = {} THEN s
    ELSE SubSeq(s, 1, Least(Occurrences(s, pattern)) - 1)
            \o SubSeq(s, Least(Occurrences(s, pattern)) + Len(pattern), Len(s))

Response(status, body) == [status |-> status, body |-> body]

\* JSON.stringify({ error: message }) and JSON.stringify({ success: true })
ErrorBody(message) ==
    JsonStringify([kind |-> message, currentAge |-> 0, blocks |-> 0])

SuccessBody ==
    JsonStringify([kind |-> "success", currentAge |-> 0, blocks |-> 0])

\* new Response(null, ...): a response without a body
NoBody == JsonText("none", NoJson)

\* what a call of fetch leaves: the response and the KV namespace
Handled(response, store) == [response |-> response, kv |-> store]

\* env.FINANCIAL_PLANS.get(key, { type: "json" }): null for a missing key
KvGetJson(store, key) ==
    IF key \in DOMAIN store THEN JsonParse(store[key]) ELSE JsonNull

\* env.FINANCIAL_PLANS.put(key, text)
KvPut(store, key, text) ==
    [k \in DOMAIN store \cup {key} |-> IF k = key THEN text ELSE store[k]]

\* lines 77-86: an exception of the handler becomes a 500 response
UncaughtException(store) ==
    Handled(Response(500, ErrorBody("Uncaught exception")), store)

NoKeyProvided(store) ==
    Handled(Response(400, ErrorBody("No key provided")), store)

\* lines 28-46: the plan read from KV, or 404 when KV gives null
GetPlanFound(planData, store) ==
    IF planData = JsonNull
    THEN Handled(Response(404, ErrorBody("Plan not found")), store)
    ELSE Handled(Response(200, JsonStringifyIndented(planData)), store)

\* lines 14-46
GetPlan(key, store) ==
    IF key = <<>> THEN NoKeyProvided(store)
    ELSE GetPlanFound(KvGetJson(store, key), store)

\* lines 61-72: the parsed body is stored as its JSON text
SavePlanBody(key, body, store) ==
    IF body = NoJson THEN UncaughtException(store)
    ELSE Handled(Response(200, SuccessBody),
                 KvPut(store, key, JsonStringify(body)))

\* lines 47-72
SavePlan(key, request, store) ==
    IF key = <<>> THEN NoKeyProvided(store)
    ELSE SavePlanBody(key, JsonParse(request.body), store)

\* fetch(request, env): lines 12-76
fetch(request, store) ==
    IF StartsWith(request.route, Path("get_plan", <<>>))
    THEN GetPlan(ReplaceFirst(request.route, Path("get_plan", <<"/">>)),
                 store)
    ELSE IF StartsWith(request.route, Path("save_plan", <<>>))
    THEN SavePlan(ReplaceFirst(request.route, Path("save_plan", <<"/">>)),
                  request, store)
    ELSE Handled(Response(404, NoBody), store)

-----------------------------------------------------------------------------
(* Requests to the worker, handled one at a time in any order              *)

\* no simulation is running and no single call is under study
NoRun ==
    /\ hostOffset = 0
    /\ call = NoCall
    /\ outcome = Pending
    /\ returned = <<>>
    /\ pending = <<>>
    /\ input = SimulationInput(PlanOverwrite, 0, hostOffset)
    /\ pc = "idle"
    /\ heap = [r \in {GlobalRef} |-> EmptyContext]
    /\ snapshots = <<>>
    /\ blockContexts = [id \in {} |-> EmptyContext]
    /\ endDate = input.birthDate
    /\ currentDate = input.birthDate
    /\ blockIndex = 1
    /\ initRuns = [b \in 1..Len(input.blocks) |-> 0]
    /\ execRuns = [b \in 1..Len(input.blocks) |-> 0]
    /\ thrown = 0
    /\ log = <<>>

\* the number of requests that are sent
MaxRequests == 3

Request(route, body) == [route |-> route, body |-> body]

DocumentA == PlanDocument(30, 1)

DocumentB == PlanDocument(31, 2)

\* bodies of the save requests for the key k1: null, two documents, one of
\* them with spaces, and a text that is no JSON
SaveBodies ==
    {JsonStringify(JsonNull), JsonStringify(DocumentA),
     JsonText("spaced", DocumentB), BrokenText}

\* the requests: get and save for the keys k1 and k2, for the empty key with
\* and without the slash after the operation, and another path
WorkerRequests ==
    {Request(Path("get_plan", tail), NoBody) :
        tail \in {<<"/", "k1">>, <<"/", "k2">>, <<"/">>, <<>>}}
    \cup {Request(Path("save_plan", <<"/", "k1">>), body) : body \in SaveBodies}
    \cup {Request(Path("save_plan", tail), JsonStringify(DocumentB)) :
             tail \in {<<"/", "k2">>, <<"/">>, <<>>}}
    \cup {Request(<<"/", "index.html">>, NoBody)}

\* an HTTP message under way: a request, or the response to it
Message(kind, id, request, response) ==
    [kind |-> kind, id |-> id, request |-> request, response |-> response]

NoResponse == Response(0, NoBody)

RequestsUnderWay == {m \in wire : m.kind = "request"}

ResponsesUnderWay == {m \in wire : m.kind = "response"}

WorkerInit ==
    /\ NoRun
    /\ NoPage

\* a client sends a request
ClientSends ==
    /\ sent < MaxRequests
    /\ \E request \in WorkerRequests :
          wire' = wire \cup {Message("request", sent + 1, request, NoResponse)}
    /\ sent' = sent + 1
    /\ UNCHANGED <<kv, served, planState, isSaved, isLoading, timeoutId,
                   saveFailed>>
    /\ UNCHANGED <<driverVars, callVars, processVars>>

\* the worker has handled the request m with the result r
Served(m, r) ==
    /\ kv' = r.kv
    /\ served' = Append(served, Message("served", m.id, m.request, r.response))
    /\ wire' = (wire \ {m})
                  \cup {Message("response", m.id, m.request, r.response)}

\* the worker handles one of the requests under way
WorkerFetch ==
    /\ \E m \in RequestsUnderWay :
          \E r \in {fetch(m.request, kv)} : Served(m, r)
    /\ UNCHANGED <<planState, isSaved, isLoading, timeoutId, saveFailed, sent>>
    /\ UNCHANGED <<driverVars, callVars, processVars>>

\* the client takes a response
ClientReceives ==
    /\ \E m \in ResponsesUnderWay : wire' = wire \ {m}
    /\ UNCHANGED <<kv, served, planState, isSaved, isLoading, timeoutId,
                   saveFailed, sent>>
    /\ UNCHANGED <<driverVars, callVars, processVars>>

WorkerNext ==
    \/ ClientSends
    \/ WorkerFetch
    \/ ClientReceives

WorkerSpec == WorkerInit /\ [][WorkerNext]_vars

-----------------------------------------------------------------------------
(* C34: the round trip of a plan through the worker                        *)

IsGetPlan(request) == StartsWith(request.route, Path("get_plan", <<>>))

IsSavePlan(request) == StartsWith(request.route, Path("save_plan", <<>>))

\* the key a request names: what follows "/api/<operation>" and the slash
\* after it
KeyOf(request) == SubSeq(request.route, 6, Len(request.route))

\* the saves for the key that succeeded before the j-th served request
SavesBefore(j, key) ==
    {i \in 1..(j - 1) :
        /\ IsSavePlan(served[i].request)
        /\ KeyOf(served[i].request) = key
        /\ served[i].response.status = 200}

\* the j-th served request is a get_plan for a key: 404 when no save for the
\* key succeeded before, else the body of the latest such save
GetReturnsLatest(j, saves) ==
    IF saves = {} THEN served[j].response.status = 404
    ELSE /\ served[j].response.status = 200
         /\ JsonParse(served[j].response.body) =
               JsonParse(served[Latest(saves)].request.body)

RoundTrip(j) ==
    /\ (IsGetPlan(served[j].request) /\ KeyOf(served[j].request) # <<>>) =>
          GetReturnsLatest(j, SavesBefore(j, KeyOf(served[j].request)))
    /\ ((IsGetPlan(served[j].request) \/ IsSavePlan(served[j].request))
           /\ KeyOf(served[j].request) = <<>>) =>
          served[j].response.status = 400

\* the keys under which the step changes what is stored
ChangedKeys ==
    {key \in DOMAIN kv \cup DOMAIN kv' :
        \/ key \notin DOMAIN kv
        \/ key \notin DOMAIN kv'
        \/ kv'[key] # kv[key]}

\* the store changes only under the key of a save that is being served
StoreStep ==
    \A key \in ChangedKeys :
       /\ Len(served') > Len(served)
       /\ IsSavePlan(served'[Len(served')].request)
       /\ KeyOf(served'[Len(served')].request) = key
       /\ key # <<>>

\* C34: after a save_plan for key k with body b has succeeded and no later
\* save for k has completed, get_plan for k returns b; get_plan for a key
\* never saved returns 404; a request with an empty key returns 400 and
\* leaves the store unchanged; a save for k changes nothing under another
\* key.
C34_RoundTrip ==
    /\ [](\A j \in 1..Len(served) : RoundTrip(j))
    /\ [][StoreStep]_vars

\* the round trip for the saves whose body is a document, that is not null
RoundTripOfDocuments ==
    \A j \in 1..Len(served) :
       (/\ Len(served[j].request.route) # 4
        /\ \A i \in SavesBefore(j, KeyOf(served[j].request)) :
              JsonParse(served[i].request.body) # JsonNull)
       => RoundTrip(j)

\* a save of null for k1 succeeded and the get_plan after it returned 404
C34_NullNotFound ==
    \E i \in 1..Len(served), j \in 1..Len(served) :
       /\ i < j
       /\ IsSavePlan(served[i].request)
       /\ served[i].request.body = JsonStringify(JsonNull)
       /\ served[i].response.status = 200
       /\ IsGetPlan(served[j].request)
       /\ KeyOf(served[j].request) = KeyOf(served[i].request)
       /\ SavesBefore(j, KeyOf(served[j].request)) = {i}
       /\ served[j].response.status = 404

\* the store changes under the key of the save being served only, for the
\* paths that are not just "/api/<operation>"
KeyedStoreStep ==
    \/ /\ Len(served') > Len(served)
       /\ Len(served'[Len(served')].request.route) = 4
    \/ StoreStep

StoreChangesOwnKey == [][KeyedStoreStep]_vars

-----------------------------------------------------------------------------
(* AppPage: loading, editing and the debounced auto-save                    *)

\* the planId of the page's URL
PlanId == <<"p1">>

\* the data fetchPlan returns for a 404: ages 30 and 62, DEFAULT_BLOCKS
DefaultPlan == PlanDocument(30, 1)

\* a plan saved by an earlier session
EarlierPlan == PlanDocument(40, 5)

\* the planData saveToBackend builds from the page's state
SavedPlanData(state) == PlanDocument(state.currentAge, state.blocks)

\* the timer of the debounce effect and the state its closure captured
Timer(state) ==
    [armed |-> TRUE, currentAge |-> state.currentAge, blocks |-> state.blocks]

\* what the user may change the state into: the blocks (a block is edited,
\* added or deleted) or the current age
MaxBlockEdits == 2

EditsOf(state) ==
    (IF state.blocks < 10 * MaxBlockEdits
     THEN {[state EXCEPT !.blocks = @ + 10]} ELSE {})
    \cup (IF state.currentAge % 5 = 0
          THEN {[state EXCEPT !.currentAge = @ + 1]} ELSE {})

\* lines 211-223, the effect after a render with new state: nothing while
\* loading; else the indicator goes grey, the pending timer is cleared and a
\* new one is set that captures the state of this render
DebounceEffect(loading, state) ==
    IF loading THEN UNCHANGED <<isSaved, timeoutId>>
    ELSE /\ isSaved' = FALSE
         /\ timeoutId' = Timer(state)

\* the page is mounted: the initial state and the request of fetchPlan
PageInit ==
    /\ NoRun
    /\ kv \in {[key \in {} |-> 0],
               [key \in {PlanId} |-> JsonStringify(EarlierPlan)]}
    /\ wire = {Message("request", 1,
                       Request(Path("get_plan", <<"/">> \o PlanId), NoBody),
                       NoResponse)}
    /\ sent = 1
    /\ served = <<>>
    /\ planState = [currentAge |-> 25, blocks |-> 0]
    /\ isSaved = TRUE
    /\ isLoading = TRUE
    /\ timeoutId = NoTimer
    /\ saveFailed = FALSE

\* lines 198-208, 441-447, 475, 500: the user changes the blocks or an age
Edit ==
    /\ \E next \in EditsOf(planState) :
          /\ planState' = next
          /\ DebounceEffect(isLoading, next)
    /\ UNCHANGED <<kv, wire, served, isLoading, saveFailed, sent>>
    /\ UNCHANGED <<driverVars, callVars, processVars>>

\* fetchPlan, lines 28-46: the default plan for 404, the parsed body for an
\* ok response, null otherwise
FetchedPlan(response) ==
    IF response.status = 404 THEN DefaultPlan
    ELSE IF response.status = 200 THEN JsonParse(response.body)
    ELSE JsonNull

\* lines 147-160: the state is set from the data, if any; loading ends
Loaded(data) ==
    /\ planState' = IF data = JsonNull THEN planState
                    ELSE [currentAge |-> data.currentAge,
                          blocks |-> data.blocks]
    /\ isLoading' = FALSE
    /\ DebounceEffect(FALSE, planState')

\* the response to fetchPlan arrives
LoadResponse ==
    /\ \E m \in ResponsesUnderWay :
          /\ IsGetPlan(m.request)
          /\ wire' = wire \ {m}
          /\ Loaded(FetchedPlan(m.response))
    /\ UNCHANGED <<kv, served, saveFailed, sent>>
    /\ UNCHANGED <<driverVars, callVars, processVars>>

\* the request of fetchPlan or its response is lost: fetch rejects, the catch
\* of line 42 returns null
LoadFails ==
    /\ \E m \in wire :
          /\ IsGetPlan(m.request)
          /\ wire' = wire \ {m}
          /\ Loaded(JsonNull)
    /\ UNCHANGED <<kv, served, saveFailed, sent>>
    /\ UNCHANGED <<driverVars, callVars, processVars>>

\* lines 217-219 and 177-190: the timer fires, saveToBackend posts the plan
\* the timer's closure captured
TimerFires ==
    /\ timeoutId.armed
    /\ wire' = wire \cup
          {Message("request", sent + 1,
                   Request(Path("save_plan", <<"/">> \o PlanId),
                           JsonStringify(SavedPlanData(timeoutId))),
                   NoResponse)}
    /\ sent' = sent + 1
    /\ timeoutId' = NoTimer
    /\ UNCHANGED <<kv, served, planState, isSaved, isLoading, saveFailed>>
    /\ UNCHANGED <<driverVars, callVars, processVars>>

\* lines 57-60 and 190-193: the response to a save arrives; an ok response
\* sets the indicator
SaveResponse ==
    /\ \E m \in ResponsesUnderWay :
          /\ IsSavePlan(m.request)
          /\ wire' = wire \ {m}
          /\ isSaved' = IF m.response.status = 200 THEN TRUE ELSE isSaved
          /\ saveFailed' = (saveFailed \/ m.response.status # 200)
    /\ UNCHANGED <<kv, served, planState, isLoading, timeoutId, sent>>
    /\ UNCHANGED <<driverVars, callVars, processVars>>

\* a save request or its response is lost: fetch rejects, savePlan returns
\* false (lines 61-64) and the indicator stays as it is
SaveFails ==
    /\ \E m \in wire :
          /\ IsSavePlan(m.request)
          /\ wire' = wire \ {m}
    /\ saveFailed' = TRUE
    /\ UNCHANGED <<kv, served, planState, isSaved, isLoading, timeoutId, sent>>
    /\ UNCHANGED <<driverVars, callVars, processVars>>

PageNext ==
    \/ Edit
    \/ LoadResponse
    \/ LoadFails
    \/ TimerFires
    \/ WorkerFetch
    \/ SaveResponse
    \/ SaveFails

PageSpec == PageInit /\ [][PageNext]_vars

\* timers fire, the worker answers the requests it gets and the page takes
\* the responses; the user and the failures are under no obligation
FairPageSpec ==
    /\ PageSpec
    /\ WF_vars(TimerFires)
    /\ WF_vars(WorkerFetch)
    /\ WF_vars(LoadResponse)
    /\ WF_vars(SaveResponse)

-----------------------------------------------------------------------------
(* C33 and C35: the save-status indicator and the auto-save                *)

\* the backend holds the page's current plan under the page's key
StoredIsCurrent ==
    /\ PlanId \in DOMAIN kv
    /\ JsonParse(kv[PlanId]) = SavedPlanData(planState)

\* C33: the save-status indicator is truthful under any interleaving of
\* edits, debounce timers and save responses: once the plan is loaded,
\* isSaved is true only when the plan last written to the backend is the
\* current editable plan; no edit made after a save request was sent is
\* unsaved while isSaved is true.
C33_IndicatorTruthful == (~isLoading /\ isSaved) => StoredIsCurrent

\* the indicator shows saved, no timer is pending and nothing is under way,
\* no request has failed, and the backend holds another plan than the page
C33_SavedButStale ==
    /\ ~isLoading
    /\ isSaved
    /\ ~saveFailed
    /\ ~StoredIsCurrent

\* the successful saves served so far, by their position in served
SavesServed ==
    {j \in 1..Len(served) :
        IsSavePlan(served[j].request) /\ served[j].response.status = 200}

\* the step serves a save request that was sent before a save already served:
\* the stored copy of the newer state is overwritten by the older one
StaleOverwrite ==
    /\ Len(served') > Len(served)
    /\ IsSavePlan(served'[Len(served')].request)
    /\ \E j \in SavesServed : served[j].id > served'[Len(served')].id

\* the page is settled: the backend holds the current plan and the indicator
\* shows saved
Settled == isSaved /\ StoredIsCurrent

\* if no save request fails, the page settles for good
AutoSaveSettles == <>[](saveFailed \/ Settled)

\* C35: if the user stops editing and no save request fails, then eventually
\* the plan stored by the backend is the latest editable plan and isSaved is
\* true, for good; and a save request for an older state that is still under
\* way never overwrites the stored copy of a newer state.
C35_AutoSaveLiveness ==
    /\ <>[](saveFailed \/ Settled)
    /\ [][~StaleOverwrite]_vars

\* a save request has overtaken an older one
Overtaken ==
    \E j \in SavesServed :
       \E i \in SavesServed : i < j /\ served[i].id > served[j].id

\* when the worker serves the save requests in the order they were sent and
\* no request fails, the page settles
SettlesInOrder == <>[](saveFailed \/ Overtaken \/ Settled)

\* nothing is under way, nothing failed, the indicator shows saved and the
\* backend holds an older plan: the last request served was sent first
C35_OlderPlanStored ==
    /\ wire = {}
    /\ ~timeoutId.armed
    /\ ~isLoading
    /\ ~saveFailed
    /\ isSaved
    /\ ~StoredIsCurrent
    /\ Overtaken

=============================================================================
